---------------------------- MODULE Spec2Model ----------------------------
(***************************************************************************)
(* Geocoding service: provider selection of POST /api/v1/geocode and the   *)
(* two review pagination modes of GoogleReviewsProvider.                   *)
(*                                                                         *)
(* Three state machines share the module, under these specifications:      *)
(*   SpecGeocode   the geocode route handler, one step per await           *)
(*   SpecStandard  getReviews (pre-fetch mode) with its two caches         *)
(*   SpecChunked   getReviewsChunked (one sort order per call)             *)
(*   SpecChunkedLoop  the load-more loop over getReviewsChunked, fair,     *)
(*                 against an upstream whose answers do not change         *)
(* A specification leaves the variables of the other machines untouched.   *)
(***************************************************************************)
EXTENDS Integers, Sequences, FiniteSets, TLC

VARIABLES
  gPc,        \* geocode handler position: "idle", "probe", "geocode", "done"
  gReq,       \* the request being served
  gIdx,       \* index into providers of the provider being tried
  gLastError, \* the handler's local lastError (NoError models null)
  gOutcome,   \* what the last provider call returned (a CallResult)
  gCalls,     \* log of provider calls made for this request, in order
  gResp,      \* the HTTP response, NoResponse until the handler returns
  now,        \* Date.now(), in milliseconds since the provider was constructed
  detailsCache, \* GoogleReviewsProvider.detailsCache, by cache key
  reviewsCache, \* GoogleReviewsProvider.reviewsCache, by cache key
  sPc,        \* standard mode: "idle", or "fetching" while Promise.all is awaited
  sChain,     \* standard mode: the client's load-more loop
  sSummary,   \* standard mode: the place summary of the call in flight
  sResp,      \* standard mode: the last ReviewResponse
  sFetches,   \* standard mode: upstream review fetches made by the last call
  sFailed,    \* standard mode: the sort orders whose fetch failed in the last merge
  cPc,        \* chunked mode: where the getReviewsChunked call in progress stands
  cChain,     \* chunked mode: the client's load-more loop
  cIn,        \* chunked mode: the last call's options, summary, fetches and answer
  cResp,      \* chunked mode: the last ReviewResponse
  cUpstream,  \* chunked mode: the upstream's answers while they do not change
  kPc,        \* concurrent callers: "idle", or "fetching" while Promise.all is awaited
  kCall,      \* concurrent callers: the place and minimumRating of each one's call
  kGot,       \* concurrent callers: what each one's three fetches have resolved to
  kView,      \* concurrent callers: the reviews getReviewsForPlace returned to each
  aPc,        \* an endpoint's handler: "idle", "probe", "call" or "done"
  aReq,       \* the HTTP request the handler serves
  aCalls,     \* the provider and upstream calls the handler has made, in order
  aResp,      \* the HTTP response of the handler
  pIdx,       \* searchForPlace: the strategy to consider next, 0 when idle
  pParams,    \* searchForPlace: the parameters of the search
  pCalls,     \* searchForPlace: the searches made so far and what they gave
  pResult,    \* searchForPlace: what the call returned or threw
  mPc,        \* one aggregation: idle, fetching, or joined
  mGot,       \* one aggregation: the answer of each sort order's fetch
  mOrder,     \* one aggregation: the sort orders in the order they completed
  mMerged     \* one aggregation: allReviews after the merge

geoVars == <<gPc, gReq, gIdx, gLastError, gOutcome, gCalls, gResp>>

cacheVars == <<now, detailsCache, reviewsCache>>

stdVars == <<sPc, sChain, sSummary, sResp, sFetches, sFailed>>

chunkVars == <<cPc, cChain, cIn, cResp, cUpstream>>

concVars == <<kPc, kCall, kGot, kView>>

apiVars == <<aPc, aReq, aCalls, aResp>>

placeVars == <<pIdx, pParams, pCalls, pResult>>

mergeVars == <<mPc, mGot, mOrder, mMerged>>

---------------------------------------------------------------------------
(* Bounds *)

MaxMatches == 2   \* most address matches an upstream returns

MaxFetch == 2     \* most reviews one upstream call returns (5 at Google)

MaxPageSize == 2  \* largest maxResults a request asks for

MaxTicks == 2     \* how many half-TTL steps the clock is followed

---------------------------------------------------------------------------
(* Canonical shapes (types/geocoding.ts) *)

NoError == [code |-> "", message |-> ""]

Err(c, m) == [code |-> c, message |-> m]

\* one entry of GeocodeResponse.results; the confidence is in hundredths
GeoResult(conf) ==
  [latitude |-> 38, longitude |-> -77, formattedAddress |-> "match",
   confidence |-> conf,
   components |-> [street |-> "", city |-> "", state |-> "", country |-> "",
                   postalCode |-> ""]]

\* n results, each with the adapter's confidence (in hundredths)
GeoResults(n, conf) == [i \in 1..n |-> GeoResult(conf)]

Success(p, results) ==
  [success |-> TRUE, provider |-> p, results |-> results, error |-> NoError]

Failure(p, e) ==
  [success |-> FALSE, provider |-> p, results |-> <<>>, error |-> e]

\* What awaiting a provider promise yields: a value, or a rejection.
Returned(v) == [threw |-> FALSE, value |-> v]

Threw == [threw |-> TRUE, value |-> Failure("", NoError)]

NoCall == [threw |-> FALSE, value |-> Failure("", NoError)]

---------------------------------------------------------------------------
(* Addresses, as the text CensusProvider.isUSAddress reads, one character
   per element *)

\* "1600 Pennsylvania Avenue NW, Washington, DC 20500"
WhiteHouse ==
  <<"1", "6", "0", "0", " ", "P", "e", "n", "n", "s", "y", "l", "v",
    "a", "n", "i", "a", " ", "A", "v", "e", "n", "u", "e", " ", "N",
    "W", ",", " ", "W", "a", "s", "h", "i", "n", "g", "t", "o", "n",
    ",", " ", "D", "C", " ", "2", "0", "5", "0", "0">>

\* "10 Downing Street, London, UK"
DowningStreet ==
  <<"1", "0", " ", "D", "o", "w", "n", "i", "n", "g", " ", "S", "t",
    "r", "e", "e", "t", ",", " ", "L", "o", "n", "d", "o", "n", ",",
    " ", "U", "K">>

\* "1 Rue de Rivoli, Paris, France"
RueDeRivoli ==
  <<"1", " ", "R", "u", "e", " ", "d", "e", " ", "R", "i", "v", "o",
    "l", "i", ",", " ", "P", "a", "r", "i", "s", ",", " ", "F", "r",
    "a", "n", "c", "e">>

\* "This is not a real address at all"
NotAnAddress ==
  <<"T", "h", "i", "s", " ", "i", "s", " ", "n", "o", "t", " ", "a",
    " ", "r", "e", "a", "l", " ", "a", "d", "d", "r", "e", "s", "s",
    " ", "a", "t", " ", "a", "l", "l">>

\* "Paris, France"
ParisFrance ==
  <<"P", "a", "r", "i", "s", ",", " ", "F", "r", "a", "n", "c", "e">>

\* "Dresden, Germany"
DresdenGermany ==
  <<"D", "r", "e", "s", "d", "e", "n", ",", " ", "G", "e", "r", "m",
    "a", "n", "y">>

\* "10115 Berlin, Germany"
BerlinPostcode ==
  <<"1", "0", "1", "1", "5", " ", "B", "e", "r", "l", "i", "n", ",",
    " ", "G", "e", "r", "m", "a", "n", "y">>

\* "Tokyo"
Tokyo ==
  <<"T", "o", "k", "y", "o">>

Addresses ==
  { WhiteHouse, DowningStreet, RueDeRivoli, NotAnAddress, ParisFrance,
    DresdenGermany, BerlinPostcode, Tokyo }

\* the address CensusProvider.isAvailable geocodes
KnownCensusAddress == WhiteHouse

\* the address GoogleProvider.isAvailable geocodes:
\* "1600 Amphitheatre Parkway, Mountain View, CA"
KnownGoogleAddress ==
  <<"1", "6", "0", "0", " ", "A", "m", "p", "h", "i", "t", "h", "e",
    "a", "t", "r", "e", " ", "P", "a", "r", "k", "w", "a", "y", ",",
    " ", "M", "o", "u", "n", "t", "a", "i", "n", " ", "V", "i", "e",
    "w", ",", " ", "C", "A">>

LowerCase ==
  <<"a", "b", "c", "d", "e", "f", "g", "h", "i", "j", "k", "l", "m",
    "n", "o", "p", "q", "r", "s", "t", "u", "v", "w", "x", "y", "z">>

UpperCase ==
  <<"A", "B", "C", "D", "E", "F", "G", "H", "I", "J", "K", "L", "M",
    "N", "O", "P", "Q", "R", "S", "T", "U", "V", "W", "X", "Y", "Z">>

DigitChars == {"0", "1", "2", "3", "4", "5", "6", "7", "8", "9"}

\* String.prototype.toUpperCase, one character
UpperOf(c) ==
  IF \E k \in 1..Len(LowerCase) : LowerCase[k] = c
    THEN UpperCase[CHOOSE k \in 1..Len(LowerCase) : LowerCase[k] = c]
    ELSE c

toUpperCase(text) == [i \in 1..Len(text) |-> UpperOf(text[i])]

\* \w of a regular expression
IsWordChar(c) ==
  \/ c \in DigitChars
  \/ c = "_"
  \/ \E k \in 1..Len(LowerCase) : c = LowerCase[k] \/ c = UpperCase[k]

\* is position i of the text a word character; positions outside are not
WordAt(text, i) == i >= 1 /\ i <= Len(text) /\ IsWordChar(text[i])

\* \b just before position i
Boundary(text, i) == WordAt(text, i - 1) # WordAt(text, i)

\* the text reads needle from position i on
MatchAt(text, i, needle) ==
  /\ i + Len(needle) - 1 <= Len(text)
  /\ \A k \in 1..Len(needle) : text[i + k - 1] = needle[k]

\* String.prototype.includes
Includes(text, needle) == \E i \in 1..Len(text) : MatchAt(text, i, needle)

\* k digits from position i on
DigitsAt(text, i, k) ==
  /\ i + k - 1 <= Len(text)
  /\ \A j \in i..(i + k - 1) : text[j] \in DigitChars

\* the 2-letter codes of the states, DC and Puerto Rico
usStates ==
  { <<"A", "L">>,
    <<"A", "K">>,
    <<"A", "Z">>,
    <<"A", "R">>,
    <<"C", "A">>,
    <<"C", "O">>,
    <<"C", "T">>,
    <<"D", "E">>,
    <<"F", "L">>,
    <<"G", "A">>,
    <<"H", "I">>,
    <<"I", "D">>,
    <<"I", "L">>,
    <<"I", "N">>,
    <<"I", "A">>,
    <<"K", "S">>,
    <<"K", "Y">>,
    <<"L", "A">>,
    <<"M", "E">>,
    <<"M", "D">>,
    <<"M", "A">>,
    <<"M", "I">>,
    <<"M", "N">>,
    <<"M", "S">>,
    <<"M", "O">>,
    <<"M", "T">>,
    <<"N", "E">>,
    <<"N", "V">>,
    <<"N", "H">>,
    <<"N", "J">>,
    <<"N", "M">>,
    <<"N", "Y">>,
    <<"N", "C">>,
    <<"N", "D">>,
    <<"O", "H">>,
    <<"O", "K">>,
    <<"O", "R">>,
    <<"P", "A">>,
    <<"R", "I">>,
    <<"S", "C">>,
    <<"S", "D">>,
    <<"T", "N">>,
    <<"T", "X">>,
    <<"U", "T">>,
    <<"V", "T">>,
    <<"V", "A">>,
    <<"W", "A">>,
    <<"W", "V">>,
    <<"W", "I">>,
    <<"W", "Y">>,
    <<"D", "C">>,
    <<"P", "R">> }

\* common US format indicators
usIndicators ==
  { <<"U", "S", "A">>,
    <<"U", "S">>,
    <<"U", "N", "I", "T", "E", "D", " ", "S", "T", "A", "T", "E", "S">>,
    <<"S", "T", "R", "E", "E", "T">>,
    <<"A", "V", "E", "N", "U", "E">>,
    <<"B", "O", "U", "L", "E", "V", "A", "R", "D">>,
    <<"R", "O", "A", "D">>,
    <<"L", "A", "N", "E">>,
    <<"D", "R", "I", "V", "E">>,
    <<"S", "T">>,
    <<"A", "V", "E">>,
    <<"B", "L", "V", "D">>,
    <<"R", "D">>,
    <<"L", "N">>,
    <<"D", "R">> }

\* the countries the last test of isUSAddress names
nonUSCountries ==
  { <<"C", "A", "N", "A", "D", "A">>,
    <<"M", "E", "X", "I", "C", "O">>,
    <<"U", "K">>,
    <<"E", "N", "G", "L", "A", "N", "D">>,
    <<"F", "R", "A", "N", "C", "E">>,
    <<"G", "E", "R", "M", "A", "N", "Y">> }

\* statePattern.test(addressUpper): /\b(AL|AK|...)\b/
HasState(text) ==
  LET addressUpper == toUpperCase(text)
  IN \E i \in 1..Len(text) :
       /\ Boundary(addressUpper, i)
       /\ \E st \in usStates :
            /\ MatchAt(addressUpper, i, st)
            /\ Boundary(addressUpper, i + Len(st))

\* zipPattern.test(address): /\b\d{5}(-\d{4})?\b/
HasZip(text) ==
  \E i \in 1..Len(text) :
    /\ Boundary(text, i)
    /\ DigitsAt(text, i, 5)
    /\ \/ Boundary(text, i + 5)
       \/ /\ MatchAt(text, i + 5, <<"-">>)
          /\ DigitsAt(text, i + 6, 4)
          /\ Boundary(text, i + 10)

\* some usIndicator occurs in addressUpper
HasUSIndicator(text) ==
  LET addressUpper == toUpperCase(text)
  IN \E ind \in usIndicators : Includes(addressUpper, ind)

\* addressUpper includes CANADA, MEXICO, UK, ENGLAND, FRANCE or GERMANY
HasNonUSCountry(text) ==
  LET addressUpper == toUpperCase(text)
  IN \E c \in nonUSCountries : Includes(addressUpper, c)

\* a bug that looks for a non-US country before the US indicators
isUSAddress_CountryFirst(a) ==
  IF HasState(a) THEN TRUE
  ELSE IF HasZip(a) THEN TRUE
  ELSE IF HasNonUSCountry(a) THEN FALSE
  ELSE TRUE

\* a bug that rejects what it cannot place
isUSAddress_DefaultForeign(a) ==
  HasState(a) \/ HasZip(a) \/ HasUSIndicator(a)

isUSAddress(a) ==
  IF HasState(a) THEN TRUE
  ELSE IF HasZip(a) THEN TRUE
  ELSE IF HasUSIndicator(a) THEN TRUE
  ELSE IF HasNonUSCountry(a) THEN FALSE
  ELSE TRUE

---------------------------------------------------------------------------
(* Upstream signals and the two adapters *)

\* what the Census geocoder answers: n addressMatches, whose matchedAddress
\* is a text or the empty string, no match, an HTTP error or no answer
CensusSignals ==
  { [kind |-> "matches", n |-> n, matched |-> m] :
      n \in 1..MaxMatches, m \in BOOLEAN }
    \cup { [kind |-> k, n |-> 0, matched |-> FALSE] :
             k \in {"nomatch", "httpError", "network"} }

GoogleSignals ==
  { [kind |-> "OK", n |-> n] : n \in 1..MaxMatches }
    \cup { [kind |-> k, n |-> 0] : k \in {"ZERO_RESULTS", "REQUEST_DENIED", "http403", "network"} }

\* calculateConfidence: min(1, (matchType + hasCoordinates) / 2), in hundredths
\* a bug that forgets to halve the sum
calculateConfidence_Sum(hasMatched, hasCoords) ==
  (IF hasMatched THEN 100 ELSE 50) + (IF hasCoords THEN 100 ELSE 0)

calculateConfidence(hasMatched, hasCoords) ==
  LET matchType == IF hasMatched THEN 100 ELSE 50
      hasCoordinates == IF hasCoords THEN 100 ELSE 0
      avg == (matchType + hasCoordinates) \div 2
  IN IF avg < 100 THEN avg ELSE 100

\* addressMatches.map(...): one match, its matchedAddress a text or empty
CensusResult(matched) ==
  [GeoResult(calculateConfidence(matched, TRUE)) EXCEPT
     !.formattedAddress = IF matched THEN "match" ELSE "",
     !.components.country = "United States"]

CensusGeocode(a, sig) ==
  IF ~isUSAddress(a)
    THEN Failure("census", Err("NON_US_ADDRESS", "Census geocoder only supports US addresses"))
  ELSE IF sig.kind = "httpError"
    THEN Failure("census", Err("CENSUS_ERROR", "Census API error"))
  ELSE IF sig.kind = "network"
    THEN Failure("census", Err("CENSUS_ERROR", "fetch failed"))
  ELSE IF sig.kind = "nomatch"
    THEN Success("census", <<>>)
  ELSE Success("census", [i \in 1..sig.n |-> CensusResult(sig.matched)])

GoogleGeocode(sig) ==
  IF sig.kind = "OK"
    THEN Success("google", GeoResults(sig.n, 100))
  ELSE IF sig.kind = "http403"
    THEN Failure("google", Err("403", "Request failed with status code 403"))
  ELSE IF sig.kind = "network"
    THEN Failure("google", Err("UNKNOWN", "Network Error"))
  ELSE Failure("google", Err("UNKNOWN", "Geocoding failed"))

\* the addresses CensusProvider.geocode sends to the Census geocoder
CensusRequests(a) == IF ~isUSAddress(a) THEN <<>> ELSE <<a>>

\* the addresses GoogleProvider.geocode sends to the Geocoding API
GoogleRequests(a) == <<a>>

CensusIsAvailable(sig) ==
  LET response == CensusGeocode(KnownCensusAddress, sig)
  IN response.success /\ Len(response.results) > 0

GoogleIsAvailable(sig) ==
  LET response == GoogleGeocode(sig)
  IN response.success

---------------------------------------------------------------------------
(* The geocode route: POST /api/v1/geocode *)

\* a bug that declares the paid provider first
providers_Reversed == <<"google", "census">>

\* const providers = [new CensusProvider(), new GoogleProvider()]
providers == <<"census", "google">>

ALLOWED_API_KEYS == {"key-1"}

validateApiKey(apiKey) ==
  IF apiKey = "" THEN FALSE ELSE apiKey \in ALLOWED_API_KEYS

GeoRequests ==
  [apiKey : {"", "key-1", "key-x"},
   provider : {"", "census", "google", "bing"},
   address : Addresses]

NoRequest == [apiKey |-> "", provider |-> "", address |-> KnownCensusAddress]

\* a bug that ignores the requested provider
Pinned_Never(req) == FALSE

\* if (preferredProvider)
Pinned(req) == req.provider # ""

\* providers.find(p => p.name === preferredProvider): its index, 0 when absent
FindProvider(name) ==
  IF \E i \in 1..Len(providers) : providers[i] = name
    THEN CHOOSE i \in 1..Len(providers) :
           providers[i] = name /\ \A j \in 1..(i - 1) : providers[j] # name
    ELSE 0

\* await provider.isAvailable(): a boolean, or a rejected promise
IsAvailableResults(p) ==
  (IF p = "census"
     THEN { [threw |-> FALSE, value |-> CensusIsAvailable(s)] : s \in CensusSignals }
     ELSE { [threw |-> FALSE, value |-> GoogleIsAvailable(s)] : s \in GoogleSignals })
    \cup { [threw |-> TRUE, value |-> FALSE] }

\* await provider.geocode(address, options): an outcome, or a rejected promise
\* the result carries what the adapter sent upstream and the signal it met
GeocodeCallResults(p, a) ==
  (IF p = "census"
     THEN { [threw |-> FALSE, value |-> CensusGeocode(a, s),
             signal |-> IF CensusRequests(a) = <<>> THEN "none" ELSE s.kind,
             requests |-> CensusRequests(a)] : s \in CensusSignals }
     ELSE { [threw |-> FALSE, value |-> GoogleGeocode(s),
             signal |-> s.kind,
             requests |-> GoogleRequests(a)] : s \in GoogleSignals })
    \cup { [threw |-> TRUE, value |-> Threw.value, signal |-> "none",
             requests |-> <<>>] }

OutcomeResponse(o) ==
  [status |-> 200, isOutcome |-> TRUE, outcome |-> o, text |-> ""]

ErrorResponse(status, text) ==
  [status |-> status, isOutcome |-> FALSE, outcome |-> Failure("", NoError), text |-> text]

NoResponse == [status |-> 0, isOutcome |-> FALSE, outcome |-> Failure("", NoError), text |-> ""]

\* a bug that accepts an empty success
Accepted_AnySuccess(o) == o.success

\* response.success && response.results.length > 0
Accepted(o) == o.success /\ Len(o.results) > 0

\* response.success && response.results.length === 0
SoftMiss(o) == o.success /\ Len(o.results) = 0

\* the catch block of the fallback loop
ProviderError(p) == Err("PROVIDER_ERROR", "Provider encountered an error: " \o p)

\* a bug that drops the recorded error
AllProvidersFailed_AlwaysGeneric(lastError) ==
  OutcomeResponse(
    Failure("multiple",
            Err("ALL_PROVIDERS_FAILED",
                "All geocoding providers failed or returned no results")))

\* a bug that forgets the generic error
AllProvidersFailed_NoDefault(lastError) ==
  OutcomeResponse(Failure("multiple", lastError))

\* the response after the loop: error: lastError || { ALL_PROVIDERS_FAILED }
AllProvidersFailed(lastError) ==
  OutcomeResponse(
    Failure("multiple",
            IF lastError = NoError
              THEN Err("ALL_PROVIDERS_FAILED",
                       "All geocoding providers failed or returned no results")
              ELSE lastError))

ProbeEntry(p, r) ==
  [provider |-> p, op |-> "isAvailable", threw |-> r.threw, avail |-> r.value,
   outcome |-> Failure("", NoError), signal |-> "none",
   requests |-> IF r.threw THEN <<>>
                ELSE IF p = "census" THEN CensusRequests(KnownCensusAddress)
                ELSE GoogleRequests(KnownGoogleAddress)]

GeocodeEntry(p, r) ==
  [provider |-> p, op |-> "geocode", threw |-> r.threw, avail |-> FALSE,
   outcome |-> r.value, signal |-> r.signal, requests |-> r.requests]

GeoInit ==
  /\ gPc = "idle"
  /\ gReq = NoRequest
  /\ gIdx = 0
  /\ gLastError = NoError
  /\ gOutcome = NoCall
  /\ gCalls = <<>>
  /\ gResp = NoResponse

\* a bug that leaves the loop (break) where the code continues
Continue_Breaks(lastError) ==
  /\ gLastError' = lastError
  /\ gIdx' = gIdx
  /\ gPc' = "done"
  /\ gResp' = AllProvidersFailed(lastError)

\* `continue` in the fallback loop: the next provider, or the response after the loop
Continue(lastError) ==
  /\ gLastError' = lastError
  /\ IF gIdx < Len(providers)
       THEN /\ gIdx' = gIdx + 1
            /\ gPc' = "probe"
            /\ gResp' = gResp
       ELSE /\ gIdx' = gIdx
            /\ gPc' = "done"
            /\ gResp' = AllProvidersFailed(lastError)

Respond(r) ==
  /\ gPc' = "done"
  /\ gResp' = r
  /\ UNCHANGED <<gIdx, gLastError>>

\* route.ts 13-61: authentication, provider lookup, entry into the loop
GeoReceive ==
  /\ gPc = "idle"
  /\ UNCHANGED <<cacheVars, stdVars, chunkVars, concVars, apiVars, placeVars, mergeVars>>
  /\ \E req \in GeoRequests :
       /\ gReq' = req
       /\ gCalls' = <<>>
       /\ gOutcome' = NoCall
       /\ gLastError' = NoError
       /\ IF ~validateApiKey(req.apiKey)
            THEN /\ gPc' = "done"
                 /\ gIdx' = 0
                 /\ gResp' = ErrorResponse(401, "Unauthorized - Invalid API key")
          ELSE IF Pinned(req) /\ FindProvider(req.provider) = 0
            THEN /\ gPc' = "done"
                 /\ gIdx' = 0
                 /\ gResp' = ErrorResponse(400, "Provider not found or not available")
          ELSE /\ gPc' = "probe"
               /\ gIdx' = IF Pinned(req) THEN FindProvider(req.provider) ELSE 1
               /\ gResp' = NoResponse

\* await provider.isAvailable(), on the named provider (47-53) or in the loop (65-69)
GeoProbe ==
  /\ gPc = "probe"
  /\ UNCHANGED <<cacheVars, stdVars, chunkVars, concVars, apiVars, placeVars, mergeVars>>
  /\ \E r \in IsAvailableResults(providers[gIdx]) :
       /\ gCalls' = Append(gCalls, ProbeEntry(providers[gIdx], r))
       /\ UNCHANGED <<gReq, gOutcome>>
       /\ IF Pinned(gReq)
            THEN IF r.threw
                   THEN Respond(ErrorResponse(500, "Internal server error"))
                 ELSE IF ~r.value
                   THEN Respond(ErrorResponse(503, "Selected provider is not available"))
                 ELSE /\ gPc' = "geocode"
                      /\ UNCHANGED <<gIdx, gLastError, gResp>>
            ELSE IF r.threw
                   THEN Continue(ProviderError(providers[gIdx]))
                 ELSE IF ~r.value
                   THEN Continue(gLastError)
                 ELSE /\ gPc' = "geocode"
                      /\ UNCHANGED <<gIdx, gLastError, gResp>>

\* await provider.geocode(address, options), named provider (56-57) or loop (72-99)
GeoGeocode ==
  /\ gPc = "geocode"
  /\ UNCHANGED <<cacheVars, stdVars, chunkVars, concVars, apiVars, placeVars, mergeVars>>
  /\ \E r \in GeocodeCallResults(providers[gIdx], gReq.address) :
       /\ gCalls' = Append(gCalls, GeocodeEntry(providers[gIdx], r))
       /\ gOutcome' = IF r.threw THEN Threw ELSE Returned(r.value)
       /\ UNCHANGED gReq
       /\ IF Pinned(gReq)
            THEN IF r.threw
                   THEN Respond(ErrorResponse(500, "Internal server error"))
                   ELSE Respond(OutcomeResponse(r.value))
            ELSE IF r.threw
                   THEN Continue(ProviderError(providers[gIdx]))
                 ELSE IF Accepted(r.value)
                   THEN Respond(OutcomeResponse(r.value))
                 ELSE IF SoftMiss(r.value)
                   THEN Continue(gLastError)
                 ELSE Continue(r.value.error)

\* the handler has returned; the next request starts from a fresh invocation
GeoReturn ==
  /\ gPc = "done"
  /\ UNCHANGED <<cacheVars, stdVars, chunkVars, concVars, apiVars, placeVars, mergeVars>>
  /\ gPc' = "idle"
  /\ gReq' = NoRequest
  /\ gIdx' = 0
  /\ gLastError' = NoError
  /\ gOutcome' = NoCall
  /\ gCalls' = <<>>
  /\ gResp' = NoResponse

NextGeocode == GeoReceive \/ GeoProbe \/ GeoGeocode \/ GeoReturn


---------------------------------------------------------------------------
(* Reviews: canonical shapes (types/reviews.ts) and the upstream *)

Review(author, time, rating) == [author |-> author, time |-> time, rating |-> rating]

\* the reviews the place has at the upstream; time is the ISO string of the
\* publication instant
ReviewPool ==
  { Review("ann", "T1", 5), Review("bob", "T1", 3), Review("ann", "T2", 4) }

\* new Date(review.time).getTime()
getTime(time) == IF time = "T1" THEN 1000 ELSE 2000

\* `${review.author}_${review.time}`
reviewId(review) == review.author \o "_" \o review.time

RECURSIVE SeqsUpTo(_, _)
\* sequences of at most n distinct members of S
SeqsUpTo(S, n) ==
  IF n = 0 THEN { <<>> }
  ELSE LET shorter == SeqsUpTo(S, n - 1)
       IN shorter \cup
            { Append(q, x) : <<q, x>> \in
                { qx \in shorter \X S :
                    /\ Len(qx[1]) = n - 1
                    /\ \A k \in 1..Len(qx[1]) : qx[1][k] # qx[2] } }

\* what the Place Details call for reviews answers under one sort order
FetchSignals ==
  { [kind |-> "OK", reviews |-> q] : q \in SeqsUpTo(ReviewPool, MaxFetch) }
    \cup { [kind |-> k, reviews |-> <<>>] : k \in {"INVALID_REQUEST", "network"} }

\* an optional number (minimumRating): undefined, or a value
Undefined == [has |-> FALSE, v |-> 0]

Num(n) == [has |-> TRUE, v |-> n]

MinimumRatings == { Undefined, Num(4) }

\* A JSON value of a page token's field: absent, a number, a string or an
\* array of strings
JAbsent == [t |-> "absent", n |-> 0, s |-> "", a |-> <<>>]

JNum(n) == [t |-> "num", n |-> n, s |-> "", a |-> <<>>]

JStr(str) == [t |-> "str", n |-> 0, s |-> str, a |-> <<>>]

JArr(arr) == [t |-> "arr", n |-> 0, s |-> "", a |-> arr]

\* JSON.stringify leaves out a property whose value is undefined
JOptional(o) == IF o.has THEN JNum(o.v) ELSE JAbsent

\* A page token, as the JSON text its base64 decodes to: "none" is no token
\* (undefined or the empty string), "garbage" a text JSON.parse rejects,
\* "null" the JSON null, "object" an object with the fields given
JsonText(kind) ==
  [json |-> kind, startIndex |-> JAbsent, placeId |-> JAbsent,
   totalReviews |-> JAbsent, minimumRating |-> JAbsent, sortMethod |-> JAbsent,
   fetchedMethods |-> JAbsent, reviewIds |-> JAbsent, lastReviewTime |-> JAbsent]

NoToken == JsonText("none")

\* a bug that writes the total where the next start index belongs
OffsetToken_TotalAsStart(startIndex, placeId, totalReviews, minimumRating) ==
  [JsonText("object") EXCEPT
     !.startIndex = JNum(totalReviews),
     !.placeId = JStr(placeId),
     !.totalReviews = JNum(totalReviews),
     !.minimumRating = JOptional(minimumRating)]

\* Buffer.from(JSON.stringify({startIndex, placeId, totalReviews, minimumRating}))
OffsetToken(startIndex, placeId, totalReviews, minimumRating) ==
  [JsonText("object") EXCEPT
     !.startIndex = JNum(startIndex),
     !.placeId = JStr(placeId),
     !.totalReviews = JNum(totalReviews),
     !.minimumRating = JOptional(minimumRating)]

\* a bug that forgets the keys already delivered
ChunkToken_NoIds(sortMethod, fetchedMethods, reviewIds, lastReviewTime, minimumRating) ==
  [JsonText("object") EXCEPT
     !.sortMethod = JStr(sortMethod),
     !.fetchedMethods = JArr(fetchedMethods),
     !.reviewIds = JArr(<<>>),
     !.lastReviewTime = JNum(lastReviewTime),
     !.minimumRating = minimumRating]

\* Buffer.from(JSON.stringify({sortMethod, fetchedMethods, reviewIds,
\* lastReviewTime, minimumRating}))
ChunkToken(sortMethod, fetchedMethods, reviewIds, lastReviewTime, minimumRating) ==
  [JsonText("object") EXCEPT
     !.sortMethod = JStr(sortMethod),
     !.fetchedMethods = JArr(fetchedMethods),
     !.reviewIds = JArr(reviewIds),
     !.lastReviewTime = JNum(lastReviewTime),
     !.minimumRating = minimumRating]

NoSummary == [present |-> FALSE, totalReviews |-> 0]

Summary(total) == [present |-> TRUE, totalReviews |-> total]

NoPagination ==
  [present |-> FALSE, nextPageToken |-> NoToken, hasMoreReviews |-> FALSE,
   currentPage |-> 0, totalPages |-> 0, pageSize |-> 0, totalReviews |-> 0]

ReviewFailure(e) ==
  [success |-> FALSE, provider |-> "google", results |-> <<>>,
   summary |-> NoSummary, pagination |-> NoPagination, error |-> e]

ReviewSuccess(results, summary, pagination) ==
  [success |-> TRUE, provider |-> "google", results |-> results,
   summary |-> summary, pagination |-> pagination, error |-> NoError]

\* fetchReviewsWithSort: a non-OK status is a success with no reviews, a
\* transport error a failure
fetchReviewsWithSort(sig) ==
  IF sig.kind = "network"
    THEN ReviewFailure(Err("UNKNOWN", "Network Error"))
  ELSE IF sig.kind # "OK"
    THEN ReviewSuccess(<<>>, NoSummary, NoPagination)
  ELSE ReviewSuccess(sig.reviews, NoSummary, NoPagination)

RECURSIVE KeysOf(_)
\* the identity keys of a list of reviews, in order
KeysOf(reviews) ==
  IF reviews = <<>> THEN <<>>
  ELSE <<reviewId(Head(reviews))>> \o KeysOf(Tail(reviews))

RECURSIVE DedupFrom_Forgets(_, _)
\* a bug that forgets a key once it has dropped a review for it
DedupFrom_Forgets(reviews, seen) ==
  IF reviews = <<>> THEN <<>>
  ELSE LET key == reviewId(Head(reviews))
       IN IF key \in seen
            THEN DedupFrom_Forgets(Tail(reviews), seen \ {key})
            ELSE <<Head(reviews)>> \o DedupFrom_Forgets(Tail(reviews), seen \cup {key})

RECURSIVE DedupFrom(_, _)
\* the filter of deduplicateReviews, with the keys seen so far
DedupFrom(reviews, seen) ==
  IF reviews = <<>> THEN <<>>
  ELSE LET key == reviewId(Head(reviews))
       IN IF key \in seen
            THEN DedupFrom(Tail(reviews), seen)
            ELSE <<Head(reviews)>> \o DedupFrom(Tail(reviews), seen \cup {key})

\* a bug that keeps the last review of a key instead of the first
deduplicateReviews_KeepLast(reviews) ==
  LET Reversed(q) == [i \in 1..Len(q) |-> q[Len(q) + 1 - i]]
  IN Reversed(DedupFrom(Reversed(reviews), {}))

deduplicateReviews(reviews) == DedupFrom(reviews, {})

RECURSIVE FilterRating(_, _)
\* allReviews.filter(review => review.rating >= minimumRating)
FilterRating(reviews, minimumRating) ==
  IF reviews = <<>> THEN <<>>
  ELSE IF Head(reviews).rating >= minimumRating
    THEN <<Head(reviews)>> \o FilterRating(Tail(reviews), minimumRating)
    ELSE FilterRating(Tail(reviews), minimumRating)

---------------------------------------------------------------------------
(* The clock and the two caches *)

CACHE_EXPIRATION == 60 * 60 * 1000

DEFAULT_PAGE_SIZE == 6

HalfTTL == CACHE_EXPIRATION \div 2

Places == { "p1" }

NoEntry == [present |-> FALSE, reviews |-> <<>>, summary |-> NoSummary, timestamp |-> 0]

ReviewsEntry(reviews, t) ==
  [present |-> TRUE, reviews |-> reviews, summary |-> NoSummary, timestamp |-> t]

DetailsEntry(summary, t) ==
  [present |-> TRUE, reviews |-> <<>>, summary |-> summary, timestamp |-> t]

\* a bug that still serves an entry exactly one hour old
Fresh_UpToTheHour(entry) == entry.present /\ (now - entry.timestamp) <= CACHE_EXPIRATION

\* cachedData && (Date.now() - cachedData.timestamp) < this.CACHE_EXPIRATION
Fresh(entry) == entry.present /\ (now - entry.timestamp) < CACHE_EXPIRATION

\* what the Place Details call for the summary answers
DetailsSignals ==
  { [kind |-> "OK", total |-> 20],
    [kind |-> "NOT_FOUND", total |-> 0],
    [kind |-> "network", total |-> 0] }

\* getPlaceDetails: the response; a cache hit never reaches the upstream
getPlaceDetails(placeId, sig) ==
  IF Fresh(detailsCache[placeId])
    THEN ReviewSuccess(<<>>, detailsCache[placeId].summary, NoPagination)
  ELSE IF sig.kind = "OK"
    THEN ReviewSuccess(<<>>, Summary(sig.total), NoPagination)
  ELSE IF sig.kind = "network"
    THEN ReviewFailure(Err("UNKNOWN", "Network Error"))
  ELSE ReviewFailure(Err("UNKNOWN", "Fetching place details failed"))

\* a bug that caches the failure of the lookup too
DetailsCacheAfter_CachesFailure(placeId, sig) ==
  IF Fresh(detailsCache[placeId])
    THEN detailsCache
    ELSE [detailsCache EXCEPT ![placeId] =
            DetailsEntry(IF sig.kind = "OK" THEN Summary(sig.total) ELSE NoSummary, now)]

\* getPlaceDetails: the details cache afterwards
DetailsCacheAfter(placeId, sig) ==
  IF ~Fresh(detailsCache[placeId]) /\ sig.kind = "OK"
    THEN [detailsCache EXCEPT ![placeId] = DetailsEntry(Summary(sig.total), now)]
    ELSE detailsCache

\* the clock moves on by half the expiration time
Tick ==
  /\ now < MaxTicks * HalfTTL
  /\ now' = now + HalfTTL
  /\ UNCHANGED <<detailsCache, reviewsCache>>

CacheInit ==
  /\ now = 0
  /\ detailsCache = [p \in Places |-> NoEntry]
  /\ reviewsCache = [p \in Places |-> NoEntry]

---------------------------------------------------------------------------
(* Standard mode: GoogleReviewsProvider.getReviews *)

SortMethods == <<"most_relevant", "newest", "highest_rating">>

SortSet == { SortMethods[i] : i \in 1..Len(SortMethods) }

\* options of a call; maxResults 0 stands for an omitted maxResults
Options(maxResults, minimumRating, pageToken) ==
  [maxResults |-> maxResults, minimumRating |-> minimumRating, pageToken |-> pageToken]

\* options?.maxResults || this.DEFAULT_PAGE_SIZE
PageSize(options) ==
  IF options.maxResults = 0 THEN DEFAULT_PAGE_SIZE ELSE options.maxResults

\* a bug that starts the first fetch alone and awaits it
FetchesStarted_FirstOnly == SubSeq(SortMethods, 1, 1)

\* sortMethods.map(...): the fetches under way when Promise.all is awaited
FetchesStarted == SortMethods

\* a bug that merges before the third fetch is in
Aggregate_FirstTwo(sigs) ==
  deduplicateReviews(
    fetchReviewsWithSort(sigs["most_relevant"]).results
      \o fetchReviewsWithSort(sigs["newest"]).results)

\* the three fetches joined by Promise.all, concatenated and deduplicated
Aggregate(sigs) ==
  deduplicateReviews(
    fetchReviewsWithSort(sigs["most_relevant"]).results
      \o fetchReviewsWithSort(sigs["newest"]).results
      \o fetchReviewsWithSort(sigs["highest_rating"]).results)

\* getReviewsForPlace: the merged set before the rating filter
MergedSet(placeId, sigs) ==
  IF Fresh(reviewsCache[placeId])
    THEN reviewsCache[placeId].reviews
    ELSE Aggregate(sigs)

\* a bug that does not cache a merge without reviews
ReviewsCacheAfter_SkipEmpty(placeId, sigs) ==
  IF Fresh(reviewsCache[placeId]) \/ Aggregate(sigs) = <<>>
    THEN reviewsCache
    ELSE [reviewsCache EXCEPT ![placeId] = ReviewsEntry(Aggregate(sigs), now)]

\* getReviewsForPlace: the reviews cache afterwards
ReviewsCacheAfter(placeId, sigs) ==
  IF Fresh(reviewsCache[placeId])
    THEN reviewsCache
    ELSE [reviewsCache EXCEPT ![placeId] = ReviewsEntry(Aggregate(sigs), now)]

\* getReviewsForPlace: the merged set, filtered when a minimum rating is given
getReviewsForPlace(placeId, minimumRating, sigs) ==
  IF minimumRating.has
    THEN FilterRating(MergedSet(placeId, sigs), minimumRating.v)
    ELSE MergedSet(placeId, sigs)

\* a bug that resumes one review too far
StartIndex_OffByOne(pageToken) ==
  IF pageToken.json = "object" /\ pageToken.startIndex.t = "num"
    THEN pageToken.startIndex.n + 1
    ELSE 0

\* a bug that resumes only with a token that carries its total
StartIndex_NeedsTotal(pageToken) ==
  IF pageToken.json = "object" /\ pageToken.startIndex.t = "num"
       /\ pageToken.startIndex.n >= 0 /\ pageToken.totalReviews.t = "num"
    THEN pageToken.startIndex.n
    ELSE 0

\* the startIndex getReviews takes from the page token
StartIndex(pageToken) ==
  IF pageToken.json = "none" THEN 0
  ELSE IF pageToken.json = "garbage" THEN 0
  ELSE IF pageToken.json = "null" THEN 0
  ELSE IF pageToken.startIndex.t = "num" /\ pageToken.startIndex.n >= 0
    THEN pageToken.startIndex.n
  ELSE 0

\* what getReviews keeps of a page token: the start index and nothing else
DecodeOffset(pageToken) == [startIndex |-> StartIndex(pageToken)]

\* JSON.stringify of that state; a property that is undefined is left out
EncodeOffset(state) ==
  [JsonText("object") EXCEPT !.startIndex = JNum(state.startIndex)]

\* a bug that takes one review past the end index
Slice_Inclusive(reviews, startIndex, endIndex) ==
  LET last == IF endIndex + 1 < Len(reviews) THEN endIndex + 1 ELSE Len(reviews)
  IN IF startIndex >= last THEN <<>> ELSE SubSeq(reviews, startIndex + 1, last)

\* allReviews.slice(startIndex, endIndex)
Slice(reviews, startIndex, endIndex) ==
  LET last == IF endIndex < Len(reviews) THEN endIndex ELSE Len(reviews)
  IN IF startIndex >= last THEN <<>> ELSE SubSeq(reviews, startIndex + 1, last)

\* a bug that rounds the page count down
Ceil_Floor(a, b) == a \div b

\* Math.ceil(a / b)
Ceil(a, b) == (a + b - 1) \div b

\* getReviews, after the place details were obtained
StandardPage(placeId, options, summary, sigs) ==
  LET pageSize == PageSize(options)
      allReviews == getReviewsForPlace(placeId, options.minimumRating, sigs)
      startIndex == StartIndex(options.pageToken)
      endIndex == startIndex + pageSize
      hasMoreReviews == endIndex < Len(allReviews)
  IN ReviewSuccess(
       Slice(allReviews, startIndex, endIndex),
       summary,
       [present |-> TRUE,
        nextPageToken |->
          IF hasMoreReviews
            THEN OffsetToken(endIndex, placeId, Len(allReviews), options.minimumRating)
            ELSE NoToken,
        hasMoreReviews |-> hasMoreReviews,
        currentPage |-> (startIndex \div pageSize) + 1,
        totalPages |-> Ceil(Len(allReviews), pageSize),
        pageSize |-> pageSize,
        totalReviews |-> Len(allReviews)])

getReviews(placeId, options, dsig, sigs) ==
  LET placeDetails == getPlaceDetails(placeId, dsig)
  IN IF ~placeDetails.success
       THEN placeDetails
       ELSE StandardPage(placeId, options, placeDetails.summary, sigs)

\* what the details call of a request meets: nothing when the cache serves it
NoSignal == [kind |-> "none", total |-> 0]

DetailsDraws(placeId) ==
  IF Fresh(detailsCache[placeId]) THEN { NoSignal } ELSE DetailsSignals

NoFetch == [m \in SortSet |-> [kind |-> "none", reviews |-> <<>>]]

NoChain ==
  [status |-> "none", placeId |-> "p1", maxResults |-> 0, minimumRating |-> Undefined,
   pageToken |-> NoToken, pages |-> <<>>, base |-> <<>>, stable |-> TRUE, first |-> TRUE,
   sent |-> NoToken, foreign |-> FALSE]

NoReviewResponse == ReviewFailure(NoError)

StdInit ==
  /\ sPc = "idle"
  /\ sChain = NoChain
  /\ sSummary = NoSummary
  /\ sResp = NoReviewResponse
  /\ sFetches = <<>>
  /\ sFailed = {}

\* the load-more loop as the client sees the response
ChainAfter(chain, resp, merged) ==
  [chain EXCEPT
     !.status = IF ~resp.success THEN "failed"
                ELSE IF resp.pagination.hasMoreReviews THEN "open"
                ELSE "done",
     !.pageToken = resp.pagination.nextPageToken,
     !.sent = chain.pageToken,
     !.pages = chain.pages \o resp.results,
     !.base = IF chain.first THEN merged ELSE chain.base,
     !.stable = chain.stable /\ (chain.first \/ merged = chain.base),
     !.first = FALSE]

ChainOptions(chain) == Options(chain.maxResults, chain.minimumRating, chain.pageToken)

\* getReviews up to its second await: the place details, then either the
\* page from the cached merged set or the three fetches under way
StdBegin(chain) ==
  /\ sPc = "idle"
  /\ \E dsig \in DetailsDraws(chain.placeId) :
       \E placeDetails \in { getPlaceDetails(chain.placeId, dsig) } :
         /\ detailsCache' = DetailsCacheAfter(chain.placeId, dsig)
         /\ sFailed' = IF getPlaceDetails(chain.placeId, dsig).success
                             /\ ~Fresh(reviewsCache[chain.placeId])
                          THEN {} ELSE sFailed
         /\ UNCHANGED <<now, reviewsCache, geoVars, placeVars, mergeVars, apiVars, concVars, chunkVars>>
         /\ IF ~placeDetails.success
              THEN /\ sPc' = "idle"
                   /\ sResp' = placeDetails
                   /\ sSummary' = NoSummary
                   /\ sFetches' = <<>>
                   /\ sChain' = ChainAfter(chain, placeDetails, <<>>)
            ELSE IF Fresh(reviewsCache[chain.placeId])
              THEN \E resp \in { StandardPage(chain.placeId, ChainOptions(chain),
                                              placeDetails.summary, NoFetch) } :
                     /\ sPc' = "idle"
                     /\ sResp' = resp
                     /\ sSummary' = NoSummary
                     /\ sFetches' = <<>>
                     /\ sChain' = ChainAfter(chain, resp, reviewsCache[chain.placeId].reviews)
            ELSE /\ sPc' = "fetching"
                 /\ sResp' = NoReviewResponse
                 /\ sSummary' = placeDetails.summary
                 /\ sFetches' = FetchesStarted
                 /\ sChain' = chain

\* the client starts the load-more loop: a request without a page token
StdFirst ==
  \E placeId \in Places, maxResults \in 0..MaxPageSize, minimumRating \in MinimumRatings :
    StdBegin([NoChain EXCEPT !.status = "open", !.placeId = placeId,
                             !.maxResults = maxResults,
                             !.minimumRating = minimumRating])

\* a startIndex no page of the place can begin at
BeyondRange == Cardinality(ReviewPool) + 1

\* page tokens that getReviews did not return: text that is not JSON, the
\* JSON null, {}, and objects whose startIndex is a string, negative or
\* beyond the set
ForgedOffsetTokens ==
  { JsonText("garbage"),
    JsonText("null"),
    JsonText("object"),
    [JsonText("object") EXCEPT !.startIndex = JStr("1")],
    [JsonText("object") EXCEPT !.startIndex = JNum(-1)],
    [JsonText("object") EXCEPT !.startIndex = JNum(BeyondRange)] }

\* a page token as getReviewsChunked returns it
ChunkTokens ==
  { ChunkToken("most_relevant", <<"most_relevant">>, <<"ann_T1">>, 1000, JNum(4)) }

\* a page token getReviews returned to a request for another place, with
\* minimumRating 4
OtherRequestTokens == { OffsetToken(1, "p2", 3, Num(4)) }

\* a client sends a page token that getReviews did not return to it
StdForeign ==
  \E token \in ForgedOffsetTokens \cup ChunkTokens \cup OtherRequestTokens,
     placeId \in Places,
     maxResults \in 1..MaxPageSize, minimumRating \in MinimumRatings :
    StdBegin([NoChain EXCEPT !.status = "open", !.placeId = placeId,
                             !.maxResults = maxResults,
                             !.minimumRating = minimumRating,
                             !.pageToken = token, !.foreign = TRUE])

\* the client asks for the next page with the token of the last response
StdNext ==
  /\ sChain.status = "open"
  /\ StdBegin(sChain)

\* the sort orders whose fetch met a transport error or a status not OK
FailedFetches(sigs) == { m \in SortSet : sigs[m].kind # "OK" }

\* how many of the three fetches failed: none, some or all
Outage(sigs) ==
  IF FailedFetches(sigs) = {} THEN "none"
  ELSE IF FailedFetches(sigs) = SortSet THEN "all"
  ELSE "some"

\* what the three fetches of one aggregation can meet.  The cache and the
\* page depend on the three answers through their merged list only, so one
\* triple of answers stands for all that merge to the same list with none,
\* some or all of the fetches failing.
FetchDraws ==
  LET all == [SortSet -> FetchSignals]
  IN { CHOOSE sigs \in all :
         Aggregate(sigs) = outcome[1] /\ Outage(sigs) = outcome[2] :
         outcome \in { <<Aggregate(sigs), Outage(sigs)>> : sigs \in all } }

\* Promise.all resolves: the merged set is cached and the page returned
StdAggregate ==
  /\ sPc = "fetching"
  /\ \E sigs \in FetchDraws :
       \E resp \in { StandardPage(sChain.placeId, ChainOptions(sChain), sSummary, sigs) } :
         /\ reviewsCache' = ReviewsCacheAfter(sChain.placeId, sigs)
         /\ sPc' = "idle"
         /\ sResp' = resp
         /\ sSummary' = NoSummary
         /\ sChain' = ChainAfter(sChain, resp, reviewsCache'[sChain.placeId].reviews)
         /\ sFailed' = FailedFetches(sigs)
         /\ UNCHANGED <<now, detailsCache, sFetches, geoVars, placeVars, mergeVars, apiVars, concVars, chunkVars>>

\* time passes between two requests
StdTick ==
  /\ sPc = "idle"
  /\ Tick
  /\ UNCHANGED <<stdVars, geoVars, placeVars, mergeVars, apiVars, concVars, chunkVars>>

NextStandard == StdFirst \/ StdNext \/ StdForeign \/ StdAggregate \/ StdTick

---------------------------------------------------------------------------
(* Chunked mode: GoogleReviewsProvider.getReviewsChunked *)

\* JavaScript truthiness of a token field
Truthy(j) ==
  \/ j.t = "arr"
  \/ (j.t = "num" /\ j.n # 0)
  \/ (j.t = "str" /\ j.s # "")

RECURSIVE SetFrom(_, _)
\* new Set(array), as its elements in insertion order
SetFrom(arr, seen) ==
  IF arr = <<>> THEN <<>>
  ELSE IF Head(arr) \in seen
    THEN SetFrom(Tail(arr), seen)
    ELSE <<Head(arr)>> \o SetFrom(Tail(arr), seen \cup {Head(arr)})

Elements(q) == { q[i] : i \in 1..Len(q) }

\* tokenData before a token is parsed
DefaultTokenData(options) ==
  [sortMethod |-> JStr("most_relevant"),
   fetchedMethods |-> JArr(<<>>), reviewIds |-> <<>>,
   lastReviewTime |-> JNum(0),
   minimumRating |-> JOptional(options.minimumRating)]

\* a bug that reads every token as one of the first sort order
TokenData_DefaultSort(options) ==
  LET token == options.pageToken
  IN IF token.json # "object"
       THEN DefaultTokenData(options)
     ELSE IF Truthy(token.reviewIds) /\ token.reviewIds.t # "arr"
       THEN DefaultTokenData(options)
     ELSE [sortMethod |-> JStr("most_relevant"),
           fetchedMethods |->
             IF Truthy(token.fetchedMethods) THEN token.fetchedMethods ELSE JArr(<<>>),
           reviewIds |->
             IF Truthy(token.reviewIds) THEN SetFrom(token.reviewIds.a, {}) ELSE <<>>,
           lastReviewTime |->
             IF Truthy(token.lastReviewTime) THEN token.lastReviewTime ELSE JNum(0),
           minimumRating |-> token.minimumRating]

\* a bug that keeps the minimum rating of the request when a token is parsed
TokenData_RequestFilter(options) ==
  LET token == options.pageToken
  IN IF token.json # "object"
       THEN DefaultTokenData(options)
     ELSE IF Truthy(token.reviewIds) /\ token.reviewIds.t # "arr"
       THEN DefaultTokenData(options)
     ELSE [sortMethod |->
             IF Truthy(token.sortMethod) THEN token.sortMethod ELSE JStr("most_relevant"),
           fetchedMethods |->
             IF Truthy(token.fetchedMethods) THEN token.fetchedMethods ELSE JArr(<<>>),
           reviewIds |->
             IF Truthy(token.reviewIds) THEN SetFrom(token.reviewIds.a, {}) ELSE <<>>,
           lastReviewTime |->
             IF Truthy(token.lastReviewTime) THEN token.lastReviewTime ELSE JNum(0),
           minimumRating |-> JOptional(options.minimumRating)]

\* tokenData after the token was parsed; every exception of the parse (no
\* JSON, a property of null, new Set of a value that is not iterable) leaves
\* the defaults.  Array fields are given as absent, a number or an array.
TokenData(options) ==
  LET token == options.pageToken
  IN IF token.json # "object"
       THEN DefaultTokenData(options)
     ELSE IF Truthy(token.reviewIds) /\ token.reviewIds.t # "arr"
       THEN DefaultTokenData(options)
     ELSE [sortMethod |->
             IF Truthy(token.sortMethod) THEN token.sortMethod ELSE JStr("most_relevant"),
           fetchedMethods |->
             IF Truthy(token.fetchedMethods) THEN token.fetchedMethods ELSE JArr(<<>>),
           reviewIds |->
             IF Truthy(token.reviewIds) THEN SetFrom(token.reviewIds.a, {}) ELSE <<>>,
           lastReviewTime |->
             IF Truthy(token.lastReviewTime) THEN token.lastReviewTime ELSE JNum(0),
           minimumRating |-> token.minimumRating]

\* JSON.stringify of tokenData, its set of keys as an array
EncodeTokenData(tokenData) ==
  [JsonText("object") EXCEPT
     !.sortMethod = tokenData.sortMethod,
     !.fetchedMethods = tokenData.fetchedMethods,
     !.reviewIds = JArr(tokenData.reviewIds),
     !.lastReviewTime = tokenData.lastReviewTime,
     !.minimumRating = tokenData.minimumRating]

\* allSortMethods.filter(method => !fetchedMethods.includes(method))
Untried(fetchedMethods) ==
  SelectSeq(SortMethods, LAMBDA m : m \notin Elements(fetchedMethods))

\* a bug that never takes the tried sort orders out
NextSortMethods_NoRotation(tokenData) == SortMethods

\* nextSortMethods; the length of a number is undefined and not > 0
NextSortMethods(tokenData) ==
  IF tokenData.fetchedMethods.t = "arr" /\ Len(tokenData.fetchedMethods.a) > 0
    THEN IF Untried(tokenData.fetchedMethods.a) = <<>>
           THEN <<"most_relevant">>
           ELSE Untried(tokenData.fetchedMethods.a)
    ELSE SortMethods

RECURSIVE Collect_OneMore(_, _, _, _, _)
\* a bug that stops one review after the page is full
Collect_OneMore(results, unique, ids, minimumRating, pageSize) ==
  IF results = <<>> THEN [unique |-> unique, ids |-> ids]
  ELSE LET review == Head(results)
       IN IF reviewId(review) \in Elements(ids)
            THEN Collect_OneMore(Tail(results), unique, ids, minimumRating, pageSize)
          ELSE IF minimumRating.t = "num" /\ review.rating < minimumRating.n
            THEN Collect_OneMore(Tail(results), unique, ids, minimumRating, pageSize)
          ELSE IF Len(unique) + 1 > pageSize
            THEN [unique |-> Append(unique, review),
                  ids |-> Append(ids, reviewId(review))]
          ELSE Collect_OneMore(Tail(results), Append(unique, review),
                               Append(ids, reviewId(review)), minimumRating, pageSize)

RECURSIVE Collect(_, _, _, _, _)
\* the loop over reviewsResponse.results: the page and the keys seen
Collect(results, unique, ids, minimumRating, pageSize) ==
  IF results = <<>> THEN [unique |-> unique, ids |-> ids]
  ELSE LET review == Head(results)
       IN IF reviewId(review) \in Elements(ids)
            THEN Collect(Tail(results), unique, ids, minimumRating, pageSize)
          ELSE IF minimumRating.t = "num" /\ review.rating < minimumRating.n
            THEN Collect(Tail(results), unique, ids, minimumRating, pageSize)
          ELSE IF Len(unique) + 1 >= pageSize
            THEN [unique |-> Append(unique, review),
                  ids |-> Append(ids, reviewId(review))]
          ELSE Collect(Tail(results), Append(unique, review),
                       Append(ids, reviewId(review)), minimumRating, pageSize)

\* getReviewsChunked from the parse of the token on, given what the fetch met
ChunkedPage(options, summary, fsig) ==
  LET pageSize == PageSize(options)
      tokenData == TokenData(options)
      nextSortMethods == NextSortMethods(tokenData)
      currentSortMethod == nextSortMethods[1]
      reviewsResponse == fetchReviewsWithSort(fsig)
      got == Collect(reviewsResponse.results, <<>>, tokenData.reviewIds,
                     tokenData.minimumRating, pageSize)
      fetchedMethods ==
        IF currentSortMethod \in Elements(tokenData.fetchedMethods.a)
          THEN tokenData.fetchedMethods.a
          ELSE Append(tokenData.fetchedMethods.a, currentSortMethod)
      hasMoreReviews ==
        Len(nextSortMethods) > 1 \/ Len(reviewsResponse.results) > Len(got.unique)
  IN IF ~reviewsResponse.success
       THEN reviewsResponse
     ELSE IF tokenData.fetchedMethods.t # "arr"
       THEN ReviewFailure(Err("UNKNOWN", "tokenData.fetchedMethods.includes is not a function"))
     ELSE ReviewSuccess(
            got.unique,
            summary,
            [present |-> TRUE,
             nextPageToken |->
               IF hasMoreReviews
                 THEN ChunkToken(currentSortMethod, fetchedMethods, got.ids,
                                 IF got.unique = <<>> THEN 0
                                 ELSE getTime(got.unique[Len(got.unique)].time),
                                 tokenData.minimumRating)
                 ELSE NoToken,
             hasMoreReviews |-> hasMoreReviews,
             currentPage |-> 0,
             totalPages |-> 0,
             pageSize |-> pageSize,
             totalReviews |-> summary.totalReviews])

\* the sort order the call fetches
CurrentSortMethod(options) == NextSortMethods(TokenData(options))[1]

\* page tokens no response of the service ever carried: text that is not
\* JSON, the JSON null, {}, {"reviewIds":5} and {"fetchedMethods":5}
MalformedTokens ==
  { JsonText("garbage"),
    JsonText("null"),
    JsonText("object"),
    [JsonText("object") EXCEPT !.reviewIds = JNum(5)],
    [JsonText("object") EXCEPT !.fetchedMethods = JNum(5)] }

\* the reviews the upstream holds for the place of the chunked requests
ChunkPool == { r \in ReviewPool : r.time = "T1" }

RECURSIVE ListsUpTo(_, _)
\* sequences of at most n members of S, repeats included
ListsUpTo(S, n) ==
  IF n = 0 THEN { <<>> }
  ELSE LET shorter == ListsUpTo(S, n - 1)
       IN shorter \cup { Append(q, x) : <<q, x>> \in shorter \X S }

\* what the Place Details call answers to one chunked request
ChunkFetchSignals ==
  { [kind |-> "OK", reviews |-> q] : q \in ListsUpTo(ChunkPool, MaxFetch) }
    \cup { [kind |-> k, reviews |-> <<>>] : k \in {"INVALID_REQUEST", "network"} }

NoFetchSignal == [kind |-> "none", reviews |-> <<>>]

NoChunkChain ==
  [status |-> "none", placeId |-> "p1", maxResults |-> 0, minimumRating |-> Undefined,
   pageToken |-> NoToken, emitted |-> {}]

NoChunkCall ==
  [options |-> Options(0, Undefined, NoToken), summary |-> NoSummary,
   fsig |-> NoFetchSignal, sorts |-> <<>>]

\* the upstream's answers are free at every call ...
Changing == [fixed |-> FALSE, answers |-> NoFetch]

\* ... or one answer per sort order for good
Unchanging(answers) == [fixed |-> TRUE, answers |-> answers]

ChunkInit ==
  /\ cPc = "idle"
  /\ cChain = NoChunkChain
  /\ cIn = NoChunkCall
  /\ cResp = NoReviewResponse
  /\ cUpstream = Changing

\* the load-more loop as the client sees the response
ChunkChainAfter(chain, resp) ==
  [chain EXCEPT
     !.status = IF ~resp.success THEN "failed"
                ELSE IF resp.pagination.hasMoreReviews THEN "open"
                ELSE "done",
     !.pageToken = resp.pagination.nextPageToken]

\* getReviewsChunked up to the fetch: the place details are obtained, and a
\* failure of theirs is the response
ChunkBegin(chain) ==
  /\ cPc = "idle"
  /\ \E dsig \in DetailsDraws(chain.placeId) :
       \E placeDetails \in { getPlaceDetails(chain.placeId, dsig) } :
         /\ detailsCache' = DetailsCacheAfter(chain.placeId, dsig)
         /\ cIn' = [options |-> Options(chain.maxResults, chain.minimumRating,
                                        chain.pageToken),
                    summary |-> placeDetails.summary,
                    fsig |-> NoFetchSignal,
                    sorts |-> <<>>]
         /\ IF ~placeDetails.success
              THEN /\ cPc' = "idle"
                   /\ cResp' = placeDetails
                   /\ cChain' = ChunkChainAfter(chain, placeDetails)
              ELSE /\ cPc' = "fetching"
                   /\ cResp' = NoReviewResponse
                   /\ cChain' = chain
         /\ UNCHANGED <<now, reviewsCache, cUpstream, geoVars, placeVars, mergeVars, apiVars, concVars, stdVars>>

\* the client starts the load-more loop: a request without a page token
ChunkFirst ==
  \E placeId \in Places, maxResults \in 0..MaxPageSize, minimumRating \in MinimumRatings :
    ChunkBegin([NoChunkChain EXCEPT !.placeId = placeId, !.maxResults = maxResults,
                                    !.minimumRating = minimumRating])

\* the client asks for the next page with the token of the last response,
\* and with the minimum rating it wants now
ChunkNext ==
  /\ cChain.status = "open"
  /\ \E minimumRating \in MinimumRatings :
       ChunkBegin([cChain EXCEPT
                     !.minimumRating = minimumRating,
                     !.emitted = cChain.emitted \cup Elements(KeysOf(cResp.results))])

\* a client sends a page token that is not one of the service's
ChunkMalformed ==
  \E token \in MalformedTokens, placeId \in Places,
     maxResults \in 0..MaxPageSize, minimumRating \in MinimumRatings :
    ChunkBegin([NoChunkChain EXCEPT !.placeId = placeId, !.maxResults = maxResults,
                                    !.minimumRating = minimumRating,
                                    !.pageToken = token])

\* page tokens as getReviews returns them
OffsetTokens ==
  { OffsetToken(i, placeId, i + 1, m) :
      i \in 1..MaxPageSize, placeId \in Places, m \in MinimumRatings }

\* a client sends getReviewsChunked a page token that getReviews returned
ChunkCrossMode ==
  \E token \in OffsetTokens, placeId \in Places,
     maxResults \in 1..MaxPageSize, minimumRating \in MinimumRatings :
    ChunkBegin([NoChunkChain EXCEPT !.placeId = placeId, !.maxResults = maxResults,
                                    !.minimumRating = minimumRating,
                                    !.pageToken = token])

\* what the fetch of the call in progress meets
ChunkFetchDraws ==
  IF cUpstream.fixed
    THEN { cUpstream.answers[CurrentSortMethod(cIn.options)] }
    ELSE ChunkFetchSignals

\* a bug that stores what the chunked call fetched in the review cache
ChunkFetch_WritesCache ==
  /\ cPc = "fetching"
  /\ \E fsig \in ChunkFetchDraws :
       \E resp \in { ChunkedPage(cIn.options, cIn.summary, fsig) } :
         /\ cPc' = "idle"
         /\ cResp' = resp
         /\ cIn' = [cIn EXCEPT !.fsig = fsig,
                                !.sorts = Append(cIn.sorts, CurrentSortMethod(cIn.options))]
         /\ cChain' = ChunkChainAfter(cChain, resp)
         /\ reviewsCache' = [reviewsCache EXCEPT ![cChain.placeId] =
                               ReviewsEntry(resp.results, now)]
         /\ UNCHANGED <<now, detailsCache, cUpstream, geoVars, placeVars, mergeVars, apiVars, concVars, stdVars>>

\* fetchReviewsWithSort resolves and the rest of getReviewsChunked runs
ChunkFetch ==
  /\ cPc = "fetching"
  /\ \E fsig \in ChunkFetchDraws :
       \E resp \in { ChunkedPage(cIn.options, cIn.summary, fsig) } :
         /\ cPc' = "idle"
         /\ cResp' = resp
         /\ cIn' = [cIn EXCEPT !.fsig = fsig,
                                !.sorts = Append(cIn.sorts, CurrentSortMethod(cIn.options))]
         /\ cChain' = ChunkChainAfter(cChain, resp)
         /\ UNCHANGED <<cacheVars, cUpstream, geoVars, placeVars, mergeVars, apiVars, concVars, stdVars>>

\* time passes between two requests
ChunkTick ==
  /\ cPc = "idle"
  /\ Tick
  /\ UNCHANGED <<geoVars, placeVars, mergeVars, apiVars, concVars, stdVars, chunkVars>>

NextChunked ==
  ChunkFirst \/ ChunkNext \/ ChunkMalformed \/ ChunkCrossMode \/ ChunkFetch \/ ChunkTick

\* the first request of a client that then only follows the tokens
ChunkStart ==
  /\ cChain.status = "none"
  /\ ChunkFirst

NextChunkedLoop == ChunkStart \/ ChunkNext \/ ChunkFetch

---------------------------------------------------------------------------
(* Both modes on the one provider: getReviews and getReviewsChunked calls
   that share its two caches *)

\* time passes while no call is under way
MixedTick ==
  /\ sPc = "idle" /\ cPc = "idle"
  /\ Tick
  /\ UNCHANGED <<stdVars, chunkVars, geoVars, placeVars, mergeVars, apiVars, concVars>>

\* a getReviews request with no option set
MixedStandard ==
  \E placeId \in Places :
    StdBegin([NoChain EXCEPT !.status = "open", !.placeId = placeId])

\* a getReviewsChunked request with no option set
MixedChunked ==
  \E placeId \in Places :
    ChunkBegin([NoChunkChain EXCEPT !.placeId = placeId])

NextMixed ==
  MixedStandard \/ StdAggregate \/ MixedChunked \/ ChunkFetch \/ MixedTick

---------------------------------------------------------------------------
(* Concurrent requests: getReviewsForPlace on the one shared provider *)

\* requests in flight at the same time on the module-level provider
Callers == { "a", "b" }

\* a fetch of Promise.all that has not resolved yet
Pending == [kind |-> "pending", reviews |-> <<>>]

\* what a fetch of a concurrent call can resolve to: one review, or an error
ConcurrentSignals ==
  { sig \in FetchSignals :
      \/ sig.kind = "network"
      \/ (sig.kind = "OK" /\ Len(sig.reviews) = 1 /\ sig.reviews[1].time = "T1") }

NoLookup == [placeId |-> "p1", minimumRating |-> Undefined]

ConcInit ==
  /\ kPc = [c \in Callers |-> "idle"]
  /\ kCall = [c \in Callers |-> NoLookup]
  /\ kGot = [c \in Callers |-> NoFetch]
  /\ kView = [c \in Callers |-> <<>>]

\* the rating filter on allReviews: filter builds a new array
RatingFilter(allReviews, minimumRating) ==
  IF minimumRating.has
    THEN FilterRating(allReviews, minimumRating.v)
    ELSE allReviews

\* all three fetches of a caller have resolved
Joined(got) == \A m \in SortSet : got[m] # Pending

\* a bug that lets a caller share the answers of a call in flight on its key
ConcLookup_SharesInFlight(c) ==
  /\ kPc[c] = "idle"
  /\ \E placeId \in Places, minimumRating \in MinimumRatings :
       LET inFlight == { d \in Callers \ {c} :
                           kPc[d] = "fetching" /\ kCall[d].placeId = placeId }
       IN /\ kCall' = [kCall EXCEPT ![c] = [placeId |-> placeId,
                                            minimumRating |-> minimumRating]]
          /\ IF Fresh(reviewsCache[placeId])
               THEN /\ kView' = [kView EXCEPT ![c] =
                                   RatingFilter(reviewsCache[placeId].reviews, minimumRating)]
                    /\ UNCHANGED <<kPc, kGot>>
               ELSE /\ kPc' = [kPc EXCEPT ![c] = "fetching"]
                    /\ kGot' = [kGot EXCEPT ![c] =
                                  IF inFlight = {}
                                    THEN [m \in SortSet |-> Pending]
                                    ELSE kGot[CHOOSE d \in inFlight : TRUE]]
                    /\ kView' = [kView EXCEPT ![c] = <<>>]
  /\ UNCHANGED <<cacheVars, geoVars, placeVars, mergeVars, apiVars, stdVars, chunkVars>>

\* getReviewsForPlace up to its await: a cache hit returns the cached entry's
\* reviews, a miss starts the three fetches
ConcLookup(c) ==
  /\ kPc[c] = "idle"
  /\ \E placeId \in Places, minimumRating \in MinimumRatings :
       /\ kCall' = [kCall EXCEPT ![c] = [placeId |-> placeId,
                                         minimumRating |-> minimumRating]]
       /\ IF Fresh(reviewsCache[placeId])
            THEN /\ kView' = [kView EXCEPT ![c] =
                                RatingFilter(reviewsCache[placeId].reviews, minimumRating)]
                 /\ UNCHANGED <<kPc, kGot>>
            ELSE /\ kPc' = [kPc EXCEPT ![c] = "fetching"]
                 /\ kGot' = [kGot EXCEPT ![c] = [m \in SortSet |-> Pending]]
                 /\ kView' = [kView EXCEPT ![c] = <<>>]
  /\ UNCHANGED <<cacheVars, geoVars, placeVars, mergeVars, apiVars, stdVars, chunkVars>>

\* one of a caller's three fetches resolves
ConcResolve(c) ==
  /\ kPc[c] = "fetching"
  /\ \E m \in SortSet, sig \in ConcurrentSignals :
       /\ kGot[c][m] = Pending
       /\ kGot' = [kGot EXCEPT ![c][m] = sig]
  /\ UNCHANGED <<kPc, kCall, kView, cacheVars, geoVars, placeVars, mergeVars, apiVars, stdVars, chunkVars>>

\* a bug that caches what the caller is served
ConcJoin_StoresView(c) ==
  /\ kPc[c] = "fetching"
  /\ Joined(kGot[c])
  /\ reviewsCache' = [reviewsCache EXCEPT ![kCall[c].placeId] =
                        ReviewsEntry(RatingFilter(Aggregate(kGot[c]),
                                                  kCall[c].minimumRating), now)]
  /\ kView' = [kView EXCEPT ![c] =
                 RatingFilter(Aggregate(kGot[c]), kCall[c].minimumRating)]
  /\ kPc' = [kPc EXCEPT ![c] = "idle"]
  /\ kGot' = [kGot EXCEPT ![c] = NoFetch]
  /\ UNCHANGED <<kCall, now, detailsCache, geoVars, placeVars, mergeVars, apiVars, stdVars, chunkVars>>

\* Promise.all resolves: the merged set is stored under the time of the
\* store, whatever the cache holds by then, and returned through the filter
ConcJoin(c) ==
  /\ kPc[c] = "fetching"
  /\ Joined(kGot[c])
  /\ reviewsCache' = [reviewsCache EXCEPT ![kCall[c].placeId] =
                        ReviewsEntry(Aggregate(kGot[c]), now)]
  /\ kView' = [kView EXCEPT ![c] =
                 RatingFilter(Aggregate(kGot[c]), kCall[c].minimumRating)]
  /\ kPc' = [kPc EXCEPT ![c] = "idle"]
  /\ kGot' = [kGot EXCEPT ![c] = NoFetch]
  /\ UNCHANGED <<kCall, now, detailsCache, geoVars, placeVars, mergeVars, apiVars, stdVars, chunkVars>>

\* time passes, also while fetches are under way
ConcTick ==
  /\ Tick
  /\ UNCHANGED <<concVars, geoVars, placeVars, mergeVars, apiVars, stdVars, chunkVars>>

NextConcurrent ==
  \/ \E c \in Callers : ConcLookup(c)
  \/ \E c \in Callers : ConcResolve(c)
  \/ \E c \in Callers : ConcJoin(c)
  \/ ConcTick

---------------------------------------------------------------------------
(* The HTTP endpoints: what each handler does before and at its provider *)

\* the route handlers of the service
Endpoints ==
  { "geocode", "reviews", "place-search", "health", "distance", "optimize" }

\* the handler checks the X-API-Key header before anything else; the route
\* planner reads a Google key from the body and never looks at the header
Authenticates(endpoint) == endpoint # "optimize"

\* a request: the X-API-Key header ("" when missing), whether the body passes
\* the handler's validation, ?chunked= of the URL ("" when missing) and the
\* chunked property of the body: missing, a boolean, or the string "true"
ApiRequests ==
  [endpoint : Endpoints \ {"reviews"}, apiKey : {"", "key-1", "key-x"},
   valid : BOOLEAN, chunkedUrl : {""}, chunkedBody : {"absent"}]
    \cup
  [endpoint : {"reviews"}, apiKey : {"", "key-1", "key-x"}, valid : BOOLEAN,
   chunkedUrl : {"", "true", "false"},
   chunkedBody : {"absent", "true", "false", "string"}]

NoApiRequest ==
  [endpoint |-> "geocode", apiKey |-> "", valid |-> FALSE,
   chunkedUrl |-> "", chunkedBody |-> "absent"]

ApiResponse(status, data) == [status |-> status, data |-> data]

ApiInit ==
  /\ aPc = "idle"
  /\ aReq = NoApiRequest
  /\ aCalls = <<>>
  /\ aResp = ApiResponse(0, FALSE)

\* a bug that reads the flag from the URL only
useChunkedLoading_UrlOnly(req) == req.chunkedUrl = "true"

\* searchParams.get('chunked') === 'true' || body.chunked === true
useChunkedLoading(req) == req.chunkedUrl = "true" \/ req.chunkedBody = "true"

\* what the handler calls once the request is accepted
ProviderCall(req) ==
  CASE req.endpoint = "reviews" ->
         IF useChunkedLoading(req) THEN "getReviewsChunked" ELSE "getReviews"
    [] req.endpoint = "geocode" -> "geocode"
    [] req.endpoint = "place-search" -> "searchForPlace"
    [] req.endpoint = "health" -> "isAvailable"
    [] req.endpoint = "distance" -> "fetch"
    [] req.endpoint = "optimize" -> "optimizeRoute"

Called(method, ok) == [method |-> method, ok |-> ok]

\* a request arrives: the key check where the handler has one, then the
\* validation of the body
ApiReceive ==
  /\ aPc \in {"idle", "done"}
  /\ \E req \in ApiRequests :
       /\ aReq' = req
       /\ aCalls' = <<>>
       /\ IF Authenticates(req.endpoint) /\ ~validateApiKey(req.apiKey)
            THEN aPc' = "done" /\ aResp' = ApiResponse(401, FALSE)
          ELSE IF ~req.valid
            THEN aPc' = "done" /\ aResp' = ApiResponse(400, FALSE)
          ELSE /\ aPc' = IF req.endpoint = "reviews" THEN "probe" ELSE "call"
               /\ aResp' = ApiResponse(0, FALSE)
  /\ UNCHANGED <<cacheVars, geoVars, placeVars, mergeVars, stdVars, chunkVars, concVars>>

\* the reviews handler probes its provider
ApiProbe ==
  /\ aPc = "probe"
  /\ \E isAvailable \in BOOLEAN :
       /\ aCalls' = Append(aCalls, Called("isAvailable", isAvailable))
       /\ IF ~isAvailable
            THEN aPc' = "done" /\ aResp' = ApiResponse(503, FALSE)
            ELSE aPc' = "call" /\ aResp' = aResp
  /\ UNCHANGED <<aReq, cacheVars, geoVars, placeVars, mergeVars, stdVars, chunkVars, concVars>>

\* the handler calls its provider, which returns or throws
ApiCall ==
  /\ aPc = "call"
  /\ \E returned \in BOOLEAN :
       /\ aCalls' = Append(aCalls, Called(ProviderCall(aReq), returned))
       /\ aResp' = IF returned THEN ApiResponse(200, TRUE) ELSE ApiResponse(500, FALSE)
  /\ aPc' = "done"
  /\ UNCHANGED <<aReq, cacheVars, geoVars, placeVars, mergeVars, stdVars, chunkVars, concVars>>

NextApi == ApiReceive \/ ApiProbe \/ ApiCall

---------------------------------------------------------------------------
(* A place with many reviews behind an upstream that returns five a call *)

\* "Google Places API has a hard limit of returning only 5 reviews per request"
GOOGLE_REVIEWS_PER_REQUEST == 5

\* the reviews of a place that has more than 15 of them, in upstream order
ManyReviews ==
  [i \in 1..16 |-> Review("u" \o ToString(i), "T1", IF i % 2 = 0 THEN 5 ELSE 3)]

\* where in that order an answer can begin: the same reviews again, one or
\* two reviews on, or none in common
WindowStarts == { 1, 2, 3, 6, 11 }

\* what one sort order can answer: five of the place's reviews in a row, or
\* a transport error
ManyFetchSignals ==
  { [kind |-> "OK",
     reviews |-> SubSeq(ManyReviews, first, first + GOOGLE_REVIEWS_PER_REQUEST - 1)] :
      first \in WindowStarts }
    \cup { [kind |-> "network", reviews |-> <<>>] }

\* getReviews for page one with page size 6, asked for or by default; the
\* place details answer OK unless the cache serves them
ExampleCall ==
  /\ sPc = "idle"
  /\ \E placeId \in Places, maxResults \in {0, DEFAULT_PAGE_SIZE},
        dsig \in { d \in DetailsDraws("p1") : d.kind \in {"none", "OK"} },
        sigs \in [SortSet -> ManyFetchSignals] :
       /\ sResp' = getReviews(placeId, Options(maxResults, Undefined, NoToken), dsig, sigs)
       /\ detailsCache' = DetailsCacheAfter(placeId, dsig)
       /\ reviewsCache' = ReviewsCacheAfter(placeId, sigs)
  /\ UNCHANGED <<now, sPc, sChain, sSummary, sFetches, sFailed, geoVars, placeVars, mergeVars, apiVars, chunkVars, concVars>>

\* time passes between two requests
ExampleTick ==
  /\ Tick
  /\ UNCHANGED <<stdVars, geoVars, placeVars, mergeVars, apiVars, chunkVars, concVars>>

NextExample == ExampleCall \/ ExampleTick

---------------------------------------------------------------------------
(* Place search: searchForPlace *)

\* the parameters of a search: "" is a text left out; the coordinates are
\* left out, given with latitude 0, or given; useAutocomplete is left out,
\* true or false
PlaceSearchParams ==
  [name : {"", "Cafe"}, phone : {"", "555"}, city : {"", "Mesa"}, cid : {"", "123"},
   coordinates : {"none", "zero", "given"},
   useAutocomplete : {"undefined", "true", "false"}]

NoParams ==
  [name |-> "", phone |-> "", city |-> "", cid |-> "", coordinates |-> "none",
   useAutocomplete |-> "undefined"]

\* the places where searchForPlace searches, in the order of its code
Strategies ==
  << "coordinates", "cid", "autocomplete", "phone", "fallbackAutocomplete", "text" >>

\* the function a strategy calls
SearchFunction(strategy) ==
  CASE strategy = "coordinates" -> "searchByCoordinates"
    [] strategy = "cid" -> "searchByCid"
    [] strategy = "autocomplete" -> "searchWithAutocomplete"
    [] strategy = "phone" -> "searchByPhone"
    [] strategy = "fallbackAutocomplete" -> "searchWithAutocomplete"
    [] strategy = "text" -> "findplacefromtext"

\* the query of the fallback: name and city, else phone, cid or coordinates
HasQuery(params) ==
  \/ params.name # "" \/ params.city # ""
  \/ params.phone # "" \/ params.cid # "" \/ params.coordinates # "none"

\* a bug that leaves out the last-resort autocomplete
Applies_NoLastResort(strategy, params) ==
  CASE strategy = "coordinates" -> params.coordinates # "none"
    [] strategy = "cid" -> params.cid # ""
    [] strategy = "autocomplete" -> params.name # "" /\ params.useAutocomplete = "true"
    [] strategy = "phone" -> params.phone # ""
    [] strategy = "fallbackAutocomplete" -> FALSE
    [] strategy = "text" -> HasQuery(params)

\* the condition under which searchForPlace tries a strategy
Applies(strategy, params) ==
  CASE strategy = "coordinates" -> params.coordinates # "none"
    [] strategy = "cid" -> params.cid # ""
    [] strategy = "autocomplete" -> params.name # "" /\ params.useAutocomplete = "true"
    [] strategy = "phone" -> params.phone # ""
    [] strategy = "fallbackAutocomplete" ->
         HasQuery(params) /\ params.name # "" /\ params.useAutocomplete # "false"
    [] strategy = "text" -> HasQuery(params)

\* the strategies from position i on that apply
Remaining(i, params) ==
  { j \in i..Len(Strategies) : Applies(Strategies[j], params) }

\* what a search gives: OK with candidates, no candidate, or an exception
\* (of the text search: a status other than OK and ZERO_RESULTS)
SearchOutcomes == { "found", "empty", "error" }

\* what a strategy can give with these parameters: searchByCoordinates
\* answers no candidate without asking when the latitude is 0
OutcomesOf(strategy, params) ==
  IF strategy = "coordinates" /\ params.coordinates = "zero"
    THEN { "empty" }
    ELSE SearchOutcomes

Searched(strategy, outcome) ==
  [strategy |-> strategy, call |-> SearchFunction(strategy), outcome |-> outcome]

PlaceResult(kind, strategy, status, candidates) ==
  [kind |-> kind, strategy |-> strategy, status |-> status, candidates |-> candidates]

NoPlaceResult == PlaceResult("none", "", "", FALSE)

PlaceInit ==
  /\ pIdx = 0
  /\ pParams = NoParams
  /\ pCalls = <<>>
  /\ pResult = NoPlaceResult

\* the call arrives: the check that some parameter is there, where a
\* latitude of 0 does not count as coordinates
PlaceBegin ==
  /\ pIdx = 0
  /\ \E params \in PlaceSearchParams :
       /\ pParams' = params
       /\ pCalls' = <<>>
       /\ IF /\ params.name = "" /\ params.phone = "" /\ params.city = ""
             /\ params.cid = "" /\ params.coordinates # "given"
            THEN /\ pIdx' = 0
                 /\ pResult' = PlaceResult("threw", "", "", FALSE)
            ELSE /\ pIdx' = 1
                 /\ pResult' = NoPlaceResult
  /\ UNCHANGED <<cacheVars, geoVars, stdVars, chunkVars, concVars, apiVars, mergeVars>>

\* the next strategy that applies is tried; what it finds is returned, and
\* only the text search returns an empty answer or lets an exception out
PlaceTry ==
  /\ pIdx > 0
  /\ pParams' = pParams
  /\ IF Remaining(pIdx, pParams) = {}
       THEN /\ pResult' = PlaceResult("returned", "", "ZERO_RESULTS", FALSE)
            /\ pIdx' = 0
            /\ pCalls' = pCalls
       ELSE \E j \in { k \in Remaining(pIdx, pParams) :
                         \A l \in Remaining(pIdx, pParams) : k <= l },
               outcome \in SearchOutcomes :
              /\ outcome \in OutcomesOf(Strategies[j], pParams)
              /\ pCalls' = Append(pCalls, Searched(Strategies[j], outcome))
              /\ IF outcome = "found"
                   THEN /\ pResult' = PlaceResult("returned", Strategies[j], "OK", TRUE)
                        /\ pIdx' = 0
                 ELSE IF Strategies[j] # "text"
                   THEN /\ pResult' = pResult
                        /\ pIdx' = j + 1
                 ELSE IF outcome = "empty"
                   THEN /\ pResult' = PlaceResult("returned", "text", "ZERO_RESULTS", FALSE)
                        /\ pIdx' = 0
                 ELSE /\ pResult' = PlaceResult("threw", "text", "", FALSE)
                      /\ pIdx' = 0
  /\ UNCHANGED <<cacheVars, geoVars, stdVars, chunkVars, concVars, apiVars, mergeVars>>

NextPlaceSearch == PlaceBegin \/ PlaceTry

---------------------------------------------------------------------------
(* One aggregation: the three fetches of getReviewsForPlace and their merge *)

\* what a fetch of the aggregation can resolve to: up to two reviews, a
\* status that is not OK, or a transport error
MergeSignals == { sig \in FetchSignals : Len(sig.reviews) <= 2 }

MergeInit ==
  /\ mPc = "idle"
  /\ mGot = NoFetch
  /\ mOrder = <<>>
  /\ mMerged = <<>>

\* the miss: the three fetches are started, none has resolved
MergeStart ==
  /\ mPc # "fetching"
  /\ mPc' = "fetching"
  /\ mGot' = [m \in SortSet |-> Pending]
  /\ mOrder' = <<>>
  /\ mMerged' = <<>>
  /\ UNCHANGED <<cacheVars, geoVars, stdVars, chunkVars, concVars, apiVars, placeVars>>

\* one of the fetches resolves, in whatever order the upstream answers
MergeResolve ==
  /\ mPc = "fetching"
  /\ \E m \in SortSet, sig \in MergeSignals :
       /\ mGot[m] = Pending
       /\ mGot' = [mGot EXCEPT ![m] = sig]
       /\ mOrder' = Append(mOrder, m)
  /\ UNCHANGED <<mPc, mMerged>>
  /\ UNCHANGED <<cacheVars, geoVars, stdVars, chunkVars, concVars, apiVars, placeVars>>

\* Promise.all resolves with the answers in the order of the sort methods:
\* they are concatenated and deduplicated
MergeJoin ==
  /\ mPc = "fetching"
  /\ Joined(mGot)
  /\ mPc' = "joined"
  /\ mMerged' = Aggregate(mGot)
  /\ UNCHANGED <<mGot, mOrder>>
  /\ UNCHANGED <<cacheVars, geoVars, stdVars, chunkVars, concVars, apiVars, placeVars>>

NextMerge == MergeStart \/ MergeResolve \/ MergeJoin

---------------------------------------------------------------------------
(* Specifications *)

vars ==
  <<geoVars, cacheVars, stdVars, chunkVars, concVars, apiVars, placeVars, mergeVars>>

Init ==
  /\ GeoInit /\ CacheInit /\ StdInit /\ ChunkInit /\ ConcInit /\ ApiInit
  /\ PlaceInit /\ MergeInit

SpecGeocode == Init /\ [][NextGeocode]_vars

SpecStandard == Init /\ [][NextStandard]_vars

SpecChunked == Init /\ [][NextChunked]_vars

SpecConcurrent == Init /\ [][NextConcurrent]_vars

SpecApi == Init /\ [][NextApi]_vars

SpecExample == Init /\ [][NextExample]_vars

SpecPlaceSearch == Init /\ [][NextPlaceSearch]_vars

SpecMerge == Init /\ [][NextMerge]_vars

SpecMixed == Init /\ [][NextMixed]_vars

\* a client that keeps resubmitting the returned token, against an upstream
\* whose answers do not change
InitUnchanging ==
  /\ GeoInit /\ CacheInit /\ StdInit /\ ConcInit /\ ApiInit /\ PlaceInit
  /\ MergeInit
  /\ cPc = "idle"
  /\ cChain = NoChunkChain
  /\ cIn = NoChunkCall
  /\ cResp = NoReviewResponse
  /\ \E answers \in [SortSet -> ChunkFetchSignals] : cUpstream = Unchanging(answers)

SpecChunkedLoop ==
  InitUnchanging /\ [][NextChunkedLoop]_vars /\ WF_vars(NextChunkedLoop)

---------------------------------------------------------------------------
(* Properties of standard mode *)

Distinct(q) == \A i, j \in 1..Len(q) : q[i] = q[j] => i = j

\* the rating filter, stated on its own
Qualifies(review, minimumRating) ==
  ~minimumRating.has \/ review.rating >= minimumRating.v

\* q is exactly the members of reviews that pass the filter, in their order
IsFilteredView(q, reviews, minimumRating) ==
  \E keep \in SUBSET (1..Len(reviews)) :
    /\ keep = { i \in 1..Len(reviews) : Qualifies(reviews[i], minimumRating) }
    /\ Len(q) = Cardinality(keep)
    /\ \A k \in 1..Len(q) :
         \E i \in keep :
           /\ q[k] = reviews[i]
           /\ Cardinality({ j \in keep : j < i }) = k - 1

\* the load-more loop, begun without a token, has ended
ChainEnded == sPc = "idle" /\ sChain.status = "done" /\ ~sChain.foreign

\* C6 as stated: when the load-more loop ends, the pages put together are
\* the deduplicated, filtered review set of the place.
C6_PagesAreTheSet ==
  ChainEnded =>
    IsFilteredView(sChain.pages, reviewsCache[sChain.placeId].reviews,
                   sChain.minimumRating)

\* C6 amended: when every page of the loop was served from the same merged
\* set, the pages put together are that set filtered, each review once.
C6_PagesAreTheStableSet ==
  (ChainEnded /\ sChain.stable) =>
    /\ IsFilteredView(sChain.pages, sChain.base, sChain.minimumRating)
    /\ Distinct(KeysOf(sChain.pages))

\* three reviews delivered in two pages of a stable set
C6_Witness ==
  /\ ChainEnded
  /\ sChain.stable
  /\ sChain.maxResults = 2
  /\ Len(sChain.pages) = 3
  /\ sResp.pagination.currentPage = 2

\* a getReviews call has returned a page, and the merged set it was cut
\* from is still the cached one
StdReturned ==
  sPc = "idle" /\ sResp.success /\ Fresh(reviewsCache[sChain.placeId])

\* the page the last request gets without its page token
NoTokenPage ==
  StandardPage(sChain.placeId,
               Options(sChain.maxResults, sChain.minimumRating, NoToken),
               sResp.summary, NoFetch)

\* C16: a token whose startIndex is missing, of the wrong type, negative or
\* beyond the filtered set gets the response of the request without a token
C16_BadStartIndexIsNoToken ==
  (StdReturned /\ sChain.foreign /\ sChain.sent \in ForgedOffsetTokens) =>
    sResp = NoTokenPage

\* an entry is stored and less than an hour has passed since its insertion
WithinHour(entry) == entry.present /\ now - entry.timestamp < 3600000

\* a step in which getReviews looks the caches up: a request arrives
StdLookup == sPc = "idle" /\ now' = now

\* the place details of the request were obtained, from cache or upstream
DetailsObtained == sPc' = "fetching" \/ sResp'.success

\* a cached entry that is within its hour is left as it is by every step
HitLeavesEntry ==
  \A p \in Places :
    /\ WithinHour(detailsCache[p]) => detailsCache'[p] = detailsCache[p]
    /\ WithinHour(reviewsCache[p]) => reviewsCache'[p] = reviewsCache[p]

\* reviews are served from the cache only within the hour, and an entry that
\* is older or missing sends the request to the upstream, whose merged
\* answer replaces the entry with the time of that lookup
ReviewsServedWithinHour ==
  LET p == sChain'.placeId
  IN /\ (StdLookup /\ sPc' = "idle" /\ sResp'.success) =>
          /\ WithinHour(reviewsCache[p])
          /\ sResp' = StandardPage(p,
                          Options(sChain'.maxResults, sChain'.minimumRating, sChain'.sent),
                          sResp'.summary, NoFetch)
     /\ (StdLookup /\ DetailsObtained /\ ~WithinHour(reviewsCache[p])) =>
          sPc' = "fetching"
     /\ (sPc = "fetching" /\ sPc' = "idle") =>
          /\ ~WithinHour(reviewsCache[p])
          /\ reviewsCache'[p].present
          /\ reviewsCache'[p].timestamp = now

\* details are served from the cache only within the hour
DetailsServedWithinHour ==
  LET p == sChain'.placeId
  IN (StdLookup /\ DetailsObtained /\ detailsCache'[p] = detailsCache[p]) =>
       WithinHour(detailsCache[p])

\* C19 as stated: an entry is served only while it is less than an hour old,
\* an older one is replaced on the lookup that finds it, and a hit changes
\* neither the entry nor its timestamp
C19_ExpiredEntryReplaced ==
  [][ /\ HitLeavesEntry
      /\ ReviewsServedWithinHour
      /\ DetailsServedWithinHour
      /\ \A p \in Places :
           (StdLookup /\ sChain' # sChain /\ p = sChain'.placeId
              /\ detailsCache[p].present /\ ~WithinHour(detailsCache[p])) =>
             detailsCache'[p].timestamp = now ]_vars

\* C19 amended: as stated, but an older details entry is replaced on the
\* lookup that finds it only when the upstream answers; when the details
\* fetch fails the old entry stays stored and the request fails
C19_ExpiredEntryReplacedOnSuccess ==
  [][ /\ HitLeavesEntry
      /\ ReviewsServedWithinHour
      /\ DetailsServedWithinHour
      /\ \A p \in Places :
           (StdLookup /\ sChain' # sChain /\ p = sChain'.placeId
              /\ detailsCache[p].present /\ ~WithinHour(detailsCache[p])) =>
             IF DetailsObtained
               THEN detailsCache'[p].timestamp = now
               ELSE detailsCache'[p] = detailsCache[p] ]_vars

\* C19 witness: a load-more loop that began on cached entries meets them an
\* hour old, and both are replaced by what the upstream then answers
C19_Witness ==
  /\ sPc = "idle"
  /\ sResp.success
  /\ sChain.sent # NoToken
  /\ ~sChain.foreign
  /\ ~sChain.stable
  /\ reviewsCache[sChain.placeId].timestamp = CACHE_EXPIRATION
  /\ detailsCache[sChain.placeId].timestamp = CACHE_EXPIRATION

\* the reviews of all three answers of one caller, in the order of the sort
\* methods, each identity key once
CompleteMerge(got) ==
  deduplicateReviews(got["most_relevant"].reviews \o got["newest"].reviews
                       \o got["highest_rating"].reviews)

\* the store of the step is one caller's, made when its three fetches are
\* all in, and puts that caller's complete merge in place of the entry
StoredWhole(p) ==
  \E c \in Callers :
    /\ kPc[c] = "fetching" /\ kPc'[c] = "idle"
    /\ kCall[c].placeId = p
    /\ \A m \in SortSet : kGot[c][m] \in ConcurrentSignals
    /\ reviewsCache'[p] = ReviewsEntry(CompleteMerge(kGot[c]), now)

\* a caller served from the cache sees the reviews of the stored entry,
\* less those under its minimum rating, and leaves the entry as it is
ReadWhole(c) ==
  LET entry == reviewsCache[kCall'[c].placeId]
  IN /\ reviewsCache' = reviewsCache
     /\ kView'[c] = IF kCall'[c].minimumRating.has
                      THEN FilterRating(entry.reviews, kCall'[c].minimumRating.v)
                      ELSE entry.reviews

\* C20: under any interleaving of concurrent calls an entry of the review
\* cache changes only by being replaced with the complete merge of the three
\* fetches of one call, and what a reader is served is such an entry
C20_EntriesAreWholeMerges ==
  [][ /\ \A p \in Places : reviewsCache'[p] # reviewsCache[p] => StoredWhole(p)
      /\ \A c \in Callers :
           (kPc[c] = "idle" /\ kPc'[c] = "idle" /\ kView'[c] # kView[c]) =>
             ReadWhole(c) ]_vars

\* C20 witness: while one caller holds some but not all of its answers, among
\* them a review the cache does not have, the other caller's merge is stored
\* and served
C20_Witness ==
  /\ kPc["a"] = "fetching"
  /\ \E m \in SortSet : kGot["a"][m] = Pending
  /\ \E m \in SortSet :
       /\ kGot["a"][m].kind = "OK"
       /\ kGot["a"][m].reviews[1] \notin Elements(reviewsCache["p1"].reviews)
  /\ reviewsCache["p1"].present
  /\ reviewsCache["p1"].timestamp = now
  /\ reviewsCache["p1"].reviews # <<>>
  /\ kPc["b"] = "idle"
  /\ kView["b"] = reviewsCache["p1"].reviews

\* C21: a request whose X-API-Key header is missing or not allowed is answered
\* 401 by every endpoint, and no provider or upstream is called for it
C21_NoKeyNoUpstream ==
  (aPc # "idle" /\ (aReq.apiKey = "" \/ aReq.apiKey \notin ALLOWED_API_KEYS)) =>
    /\ aCalls = <<>>
    /\ aPc = "done"
    /\ aResp = ApiResponse(401, FALSE)

\* C22: the reviews endpoint answers 503 and calls neither method when the
\* probe returns false; when it returns true exactly one method is called,
\* getReviewsChunked exactly when the URL has chunked=true or the body has
\* chunked: true
C22_ProbeThenOneMethod ==
  (aReq.endpoint = "reviews" /\ aPc = "done" /\ aCalls # <<>>) =>
    /\ aCalls[1].method = "isAvailable"
    /\ IF ~aCalls[1].ok
         THEN Len(aCalls) = 1 /\ aResp.status = 503
         ELSE /\ Len(aCalls) = 2
              /\ aCalls[2].method =
                   IF aReq.chunkedUrl = "true" \/ aReq.chunkedBody = "true"
                     THEN "getReviewsChunked"
                     ELSE "getReviews"

\* C22 witness: the flag comes with the body alone and the chunked method
\* is the one called
C22_Witness ==
  /\ aReq.endpoint = "reviews"
  /\ aPc = "done"
  /\ aReq.chunkedUrl = "false"
  /\ aReq.chunkedBody = "true"
  /\ Len(aCalls) = 2
  /\ aCalls[1] = Called("isAvailable", TRUE)
  /\ aCalls[2].method = "getReviewsChunked"

\* the start index of the token the last request sent, 0 without a usable one
SentStart ==
  IF /\ sChain.sent.json = "object"
     /\ sChain.sent.startIndex.t = "num"
     /\ sChain.sent.startIndex.n >= 0
    THEN sChain.sent.startIndex.n
    ELSE 0

\* the page size of the last request
SentPageSize == IF sChain.maxResults = 0 THEN 6 ELSE sChain.maxResults

\* the cached merged set as the last request's minimum rating lets it through
FilteredSet ==
  LET merged == reviewsCache[sChain.placeId].reviews
  IN IF sChain.minimumRating.has
       THEN SelectSeq(merged, LAMBDA r : r.rating >= sChain.minimumRating.v)
       ELSE merged

\* C24: currentPage is floor(startIndex / pageSize) + 1, totalPages is
\* ceil(total / pageSize) and totalReviews is total, the size of the
\* deduplicated and filtered set, whatever count the upstream reports
C24_PageMetadata ==
  StdReturned =>
    LET total == Len(FilteredSet)
        meta == sResp.pagination
    IN /\ meta.currentPage = (SentStart \div SentPageSize) + 1
       /\ meta.totalPages * SentPageSize >= total
       /\ (meta.totalPages - 1) * SentPageSize < total
       /\ meta.totalPages >= 0
       /\ meta.pageSize = SentPageSize
       /\ meta.totalReviews = total

\* C24 witness: a second page of a set that does not fill its last page,
\* under a summary that reports another count
C24_Witness ==
  /\ StdReturned
  /\ sResp.pagination.currentPage = 2
  /\ Len(FilteredSet) = 3
  /\ SentPageSize = 2
  /\ sResp.pagination.totalPages = 2
  /\ sResp.summary.totalReviews # sResp.pagination.totalReviews

\* C30: the page is the slice [startIndex, startIndex + pageSize) of the
\* filtered merged set; hasMoreReviews says whether startIndex + pageSize is
\* less than the filtered total; the token is there exactly when
\* hasMoreReviews is true, and encodes startIndex + pageSize
C30_SliceAndToken ==
  StdReturned =>
    LET total == Len(FilteredSet)
        endIndex == SentStart + SentPageSize
        last == IF endIndex < total THEN endIndex ELSE total
        meta == sResp.pagination
    IN /\ sResp.results =
            IF SentStart >= last THEN <<>>
            ELSE [i \in 1..(last - SentStart) |-> FilteredSet[SentStart + i]]
       /\ meta.hasMoreReviews <=> endIndex < total
       /\ meta.nextPageToken # NoToken <=> meta.hasMoreReviews
       /\ meta.hasMoreReviews => meta.nextPageToken.startIndex = JNum(endIndex)

\* C30 witness: a page from the middle of the set, resumed from a token of
\* the service and followed by another
C30_Witness ==
  /\ StdReturned
  /\ ~sChain.foreign
  /\ SentStart = 1
  /\ Len(sResp.results) = 1
  /\ sResp.pagination.hasMoreReviews
  /\ sResp.pagination.nextPageToken.startIndex = JNum(2)

\* C23 as stated: page one of such a place with page size 6 has exactly 6
\* reviews, hasMoreReviews and a page token
C23_SixAndMore ==
  sResp.success =>
    /\ Len(sResp.results) = 6
    /\ sResp.pagination.hasMoreReviews
    /\ sResp.pagination.nextPageToken # NoToken

\* C23 amended: that is so when the three answers hold more than 6 distinct
\* reviews between them; when they hold 6 or fewer, page one has them all,
\* hasMoreReviews is false and there is no token
C23_SixWhenMoreThanSixDistinct ==
  sResp.success =>
    IF Len(reviewsCache["p1"].reviews) > 6
      THEN /\ Len(sResp.results) = 6
           /\ sResp.pagination.hasMoreReviews
           /\ sResp.pagination.nextPageToken # NoToken
      ELSE /\ sResp.results = reviewsCache["p1"].reviews
           /\ ~sResp.pagination.hasMoreReviews
           /\ sResp.pagination.nextPageToken = NoToken

\* C23 witness: the three sort orders answered fifteen different reviews and
\* page one has six of them, with a token for the seventh
C23_Witness ==
  /\ sResp.success
  /\ Len(reviewsCache["p1"].reviews) = 15
  /\ Len(sResp.results) = 6
  /\ sResp.pagination.nextPageToken.startIndex = JNum(6)

---------------------------------------------------------------------------
(* Properties of the geocode route *)

\* position of a provider in the documented priority order: census, then google
Rank(p) == IF p = "census" THEN 1 ELSE IF p = "google" THEN 2 ELSE 0

Serving == gPc # "idle"

AutoSelection == Serving /\ gReq.provider = "" /\ Len(gCalls) > 0

NamedProvider == Serving /\ gReq.provider # ""

FailedProbe(e) == e.op = "isAvailable" /\ (e.threw \/ ~e.avail)

GoodProbe(e) == e.op = "isAvailable" /\ ~e.threw /\ e.avail

AcceptedCall(e) ==
  e.op = "geocode" /\ ~e.threw /\ e.outcome.success /\ Len(e.outcome.results) > 0

SoftMissCall(e) ==
  e.op = "geocode" /\ ~e.threw /\ e.outcome.success /\ Len(e.outcome.results) = 0

\* a call that records an error: a failure outcome, or an exception
RecordsError(e) == e.threw \/ (e.op = "geocode" /\ ~e.outcome.success)

RecordedBy(e) ==
  IF e.threw
    THEN [code |-> "PROVIDER_ERROR",
          message |-> "Provider encountered an error: " \o e.provider]
    ELSE e.outcome.error

\* the error recorded by the last of the first k calls that recorded one
LastRecorded(k) ==
  IF \E i \in 1..k : RecordsError(gCalls[i])
    THEN LET last == CHOOSE i \in 1..k :
                       /\ RecordsError(gCalls[i])
                       /\ \A j \in (i + 1)..k : ~RecordsError(gCalls[j])
         IN RecordedBy(gCalls[last])
    ELSE NoError

WellFormedOutcome(o) ==
  /\ o.provider # ""
  /\ o.success => o.error = NoError
  /\ ~o.success => (o.results = <<>> /\ o.error.code # "" /\ o.error.message # "")

\* C1: with a provider named, every probe and every geocode call is made on
\* that provider, and a returned outcome is that provider's outcome; an
\* unknown provider is never called at all.
C1_NamedProviderOnly ==
  NamedProvider =>
    /\ \A i \in 1..Len(gCalls) : gCalls[i].provider = gReq.provider
    /\ Rank(gReq.provider) = 0 => gCalls = <<>>
    /\ Len(gCalls) <= 2
    /\ gResp.isOutcome => gResp.outcome.provider = gReq.provider

\* the named free provider failed and the paid provider was left alone
C1_Witness ==
  /\ gPc = "done"
  /\ gReq.provider = "census"
  /\ Len(gCalls) = 2
  /\ gResp.isOutcome
  /\ ~gResp.outcome.success

\* C2: in automatic selection the calls are, provider by provider in the
\* order census, google: a probe, then geocode if and only if the probe
\* returned true; a provider is entered only after the previous one was
\* skipped or not accepted; an accepted outcome is the last call and is
\* the response.
C2_PriorityOrder ==
  AutoSelection =>
    /\ gCalls[1].op = "isAvailable" /\ gCalls[1].provider = "census"
    /\ \A i \in 2..Len(gCalls) :
         IF gCalls[i].op = "isAvailable"
           THEN /\ Rank(gCalls[i].provider) = Rank(gCalls[i - 1].provider) + 1
                /\ ~GoodProbe(gCalls[i - 1])
                /\ ~AcceptedCall(gCalls[i - 1])
           ELSE /\ GoodProbe(gCalls[i - 1])
                /\ gCalls[i].provider = gCalls[i - 1].provider
    /\ GoodProbe(gCalls[Len(gCalls)]) => gPc = "geocode"
    /\ \A i \in 1..Len(gCalls) :
         AcceptedCall(gCalls[i]) =>
           /\ i = Len(gCalls)
           /\ gPc = "done"
           /\ gResp = OutcomeResponse(gCalls[i].outcome)
    /\ (gResp.isOutcome /\ gResp.outcome.provider # "multiple") =>
         AcceptedCall(gCalls[Len(gCalls)])

\* the free provider was accepted and the paid provider never touched
C2_Witness ==
  /\ AutoSelection
  /\ gPc = "done"
  /\ Len(gCalls) = 2
  /\ gResp.isOutcome
  /\ gResp.outcome.provider = "census"
  /\ gResp.outcome.success

\* C3: when automatic selection ends without an accepted outcome, the
\* response is success=false, provider "multiple", no results, with the error
\* recorded by the last call that failed or threw, and the generic
\* ALL_PROVIDERS_FAILED error exactly when no call recorded one.
C3_ExhaustedResponse ==
  (AutoSelection /\ gPc = "done" /\ ~AcceptedCall(gCalls[Len(gCalls)])) =>
    /\ gResp.status = 200
    /\ gResp.isOutcome
    /\ ~gResp.outcome.success
    /\ gResp.outcome.provider = "multiple"
    /\ gResp.outcome.results = <<>>
    /\ (\E i \in 1..Len(gCalls) : RecordsError(gCalls[i])) =>
         gResp.outcome.error = LastRecorded(Len(gCalls))
    /\ gResp.outcome.error.code = "ALL_PROVIDERS_FAILED"
         <=> ~(\E i \in 1..Len(gCalls) : RecordsError(gCalls[i]))

\* census rejected the address, google was unavailable: the census error stands
C3_Witness ==
  /\ AutoSelection
  /\ gPc = "done"
  /\ Len(gCalls) = 3
  /\ FailedProbe(gCalls[3])
  /\ gResp.outcome.provider = "multiple"
  /\ gResp.outcome.error.code = "NON_US_ADDRESS"

\* C4 as stated: whenever a provider was probed, the caller receives a
\* well-formed GeocodeOutcome, whatever the probe or geocode did.
C4_AlwaysOutcome ==
  (gPc = "done" /\ Len(gCalls) > 0) =>
    /\ gResp.isOutcome
    /\ WellFormedOutcome(gResp.outcome)

\* C4 amended: in automatic selection every response is a well-formed
\* outcome with status 200 (failures and exceptions of providers end up in
\* its error field); with a provider named, an outcome returned by geocode
\* is passed on as it is, while a probe that returned false is answered 503
\* and a rejected probe or geocode 500, neither of them an outcome.
C4_OutcomeOrStatus ==
  (gPc = "done" /\ Len(gCalls) > 0) =>
    LET last == gCalls[Len(gCalls)]
    IN IF gReq.provider = ""
         THEN /\ gResp.status = 200
              /\ gResp.isOutcome
              /\ WellFormedOutcome(gResp.outcome)
              /\ ~AcceptedCall(last) => ~gResp.outcome.success
         ELSE IF last.threw
           THEN gResp = ErrorResponse(500, "Internal server error")
         ELSE IF last.op = "isAvailable"
           THEN gResp = ErrorResponse(503, "Selected provider is not available")
         ELSE /\ gResp = OutcomeResponse(last.outcome)
              /\ WellFormedOutcome(gResp.outcome)

\* both providers raised and the caller still got a failure outcome
C4_Witness ==
  /\ AutoSelection
  /\ gPc = "done"
  /\ \A i \in 1..Len(gCalls) : gCalls[i].threw
  /\ Len(gCalls) = 2
  /\ gResp.isOutcome
  /\ gResp.outcome.error.code = "PROVIDER_ERROR"

\* C9: in automatic selection a success with zero results leaves lastError
\* as it was before the call and, while a provider remains, leaves the
\* request unanswered with the next provider up for its probe; after the
\* last provider the response is the exhausted one built from that error.
C9_SoftMiss ==
  AutoSelection =>
    \A i \in 1..Len(gCalls) :
      SoftMissCall(gCalls[i]) =>
        /\ i = Len(gCalls) => gLastError = LastRecorded(i - 1)
        /\ (i = Len(gCalls) /\ Rank(gCalls[i].provider) < Len(providers)) =>
             /\ gPc = "probe"
             /\ gIdx = Rank(gCalls[i].provider) + 1
             /\ gResp = NoResponse
        /\ (i = Len(gCalls) /\ Rank(gCalls[i].provider) = Len(providers)) =>
             /\ gPc = "done"
             /\ gResp.outcome.provider = "multiple"
             /\ gResp.outcome.error.code # ""
        /\ i < Len(gCalls) =>
             /\ gCalls[i + 1].op = "isAvailable"
             /\ Rank(gCalls[i + 1].provider) = Rank(gCalls[i].provider) + 1

\* census understood the address, found nothing, and google is being probed
C9_Witness ==
  /\ AutoSelection
  /\ Len(gCalls) = 3
  /\ SoftMissCall(gCalls[2])
  /\ gCalls[3].provider = "google"
  /\ gLastError = NoError

\* C10 as stated: for every request a failed probe of a provider that is
\* not the last one never ends the request.
C10_ProbeNeverFatal ==
  (Serving /\ Len(gCalls) > 0) =>
    LET last == gCalls[Len(gCalls)]
    IN (FailedProbe(last) /\ Rank(last.provider) < Len(providers)) => gPc # "done"

\* C10 amended: in automatic selection a probe that returns false or raises
\* skips the provider (no geocode on it) and moves on to the next provider,
\* the request ending only when none remains, then with the exhausted
\* outcome; with a provider named, a failed probe ends the request at once
\* with 503 (false) or 500 (raised) and no other provider is tried.
C10_ProbeFailure ==
  (Serving /\ Len(gCalls) > 0) =>
    LET last == gCalls[Len(gCalls)]
    IN FailedProbe(last) =>
         IF gReq.provider = ""
           THEN IF Rank(last.provider) < Len(providers)
                  THEN /\ gPc = "probe"
                       /\ gIdx = Rank(last.provider) + 1
                       /\ gResp = NoResponse
                  ELSE /\ gPc = "done"
                       /\ gResp.isOutcome
                       /\ gResp.outcome.provider = "multiple"
           ELSE /\ gPc = "done"
                /\ ~gResp.isOutcome
                /\ gResp.status = (IF last.threw THEN 500 ELSE 503)
                /\ Len(gCalls) = 1

\* census was unavailable and google answered the request
C10_Witness ==
  /\ AutoSelection
  /\ gPc = "done"
  /\ Len(gCalls) = 3
  /\ FailedProbe(gCalls[1])
  /\ AcceptedCall(gCalls[3])
  /\ gResp.outcome.provider = "google"

---------------------------------------------------------------------------
(* Properties of chunked mode *)

\* a getReviewsChunked call has returned
ChunkReturned == cPc = "idle" /\ cIn.fsig.kind # "none"

\* C5: a request with a malformed page token gets the response the same
\* request gets without a token (same place details, same upstream answer);
\* the token never turns the response into a failure
C5_MalformedTokenIsNoToken ==
  (ChunkReturned /\ cIn.options.pageToken \in MalformedTokens) =>
    cResp = ChunkedPage([cIn.options EXCEPT !.pageToken = NoToken],
                        cIn.summary, cIn.fsig)

\* C17: a page token of the other mode gets the response of the request
\* without a token; here a token of getReviews handed to getReviewsChunked
C17_CrossModeIsNoToken ==
  (ChunkReturned /\ cIn.options.pageToken \in OffsetTokens) =>
    cResp = ChunkedPage([cIn.options EXCEPT !.pageToken = NoToken],
                        cIn.summary, cIn.fsig)

\* the chunk cursor a call has just returned
EmittedChunkToken == cResp.pagination.nextPageToken

\* decode a token as getReviewsChunked does, then encode what was decoded
ChunkRoundTrip(token) ==
  EncodeTokenData(TokenData([cIn.options EXCEPT !.pageToken = token]))

ChunkTokenReturned == ChunkReturned /\ EmittedChunkToken # NoToken

\* an offset cursor, as getReviews builds it, is held by a client
OffsetTokenHeld == cPc = "idle" /\ cIn.options.pageToken \in OffsetTokens

C7_NoReemission ==
  (cPc = "idle" /\ cResp.success) =>
    /\ Distinct(KeysOf(cResp.results))
    /\ Elements(KeysOf(cResp.results)) \cap cChain.emitted = {}

\* C7: a later page was cut from a fetch that brought back a review an
\* earlier page had returned, next to a new one
C7_Witness ==
  /\ cPc = "idle"
  /\ cResp.success
  /\ cResp.results # <<>>
  /\ \E i \in 1..Len(cIn.fsig.reviews) :
       reviewId(cIn.fsig.reviews[i]) \in cChain.emitted

\* C8: against an upstream whose answers do not change, the load-more loop
\* reaches a response without more reviews (or a failure) and ends
C8_LoadMoreTerminates ==
  <>(cPc = "idle" /\ cChain.status \in {"done", "failed"})

---------------------------------------------------------------------------
(* Properties of the geocoding adapters *)

\* a geocode call that CensusProvider.geocode answered
CensusCall(e) == e.op = "geocode" /\ e.provider = "census" /\ ~e.threw

\* nothing in the text places the address in the US, and a non-US country
\* is named
ForeignOnly(a) ==
  ~HasState(a) /\ ~HasZip(a) /\ ~HasUSIndicator(a) /\ HasNonUSCountry(a)

NonUSFailure ==
  Failure("census", Err("NON_US_ADDRESS", "Census geocoder only supports US addresses"))

\* e sent the address a to its upstream
Requested(e, a) == \E k \in 1..Len(e.requests) : e.requests[k] = a

\* C11: CensusProvider.geocode returns the NON_US_ADDRESS failure, with no
\* upstream request, exactly when the address has no state code, no zip
\* code and no US indicator and names a non-US country; every other
\* address, the ambiguous one included, is sent to the Census geocoder
C11_NonUSShortCircuit ==
  Serving =>
    \A i \in 1..Len(gCalls) :
      CensusCall(gCalls[i]) =>
        IF ForeignOnly(gReq.address)
          THEN /\ gCalls[i].outcome = NonUSFailure
               /\ gCalls[i].requests = <<>>
          ELSE /\ gCalls[i].requests = <<gReq.address>>
               /\ gCalls[i].outcome.error.code # "NON_US_ADDRESS"

\* census was asked for "Paris, France" and refused without a request
C11_Witness ==
  /\ Serving
  /\ gReq.address = ParisFrance
  /\ Len(gCalls) >= 2
  /\ CensusCall(gCalls[2])
  /\ gCalls[2].outcome = NonUSFailure
  /\ gCalls[2].requests = <<>>

\* C12: for "10 Downing Street, London, UK" with no provider named, the
\* census adapter sends no request for that address and the response is the
\* google provider's successful outcome
C12_DowningStreetSkipsCensus ==
  (AutoSelection /\ gReq.address = DowningStreet) =>
    /\ \A i \in 1..Len(gCalls) :
         gCalls[i].provider = "census" => ~Requested(gCalls[i], DowningStreet)
    /\ (gPc = "done" /\ \E i \in 1..Len(gCalls) :
                          gCalls[i].provider = "google" /\ AcceptedCall(gCalls[i]))
         => (gResp.outcome.success /\ gResp.outcome.provider = "google")

\* C12 amended: for "10 Downing Street, London, UK" with no provider named,
\* the census adapter takes the address for a US one and sends it to the
\* Census geocoder; a successful response is the outcome of the provider
\* whose call was accepted, google's when census found nothing or failed
C12_DowningStreetTriesCensus ==
  (AutoSelection /\ gReq.address = DowningStreet) =>
    /\ \A i \in 1..Len(gCalls) :
         CensusCall(gCalls[i]) =>
           /\ gCalls[i].requests = <<DowningStreet>>
           /\ gCalls[i].outcome.error.code # "NON_US_ADDRESS"
    /\ \A i \in 1..Len(gCalls) :
         (gCalls[i].provider = "google" /\ AcceptedCall(gCalls[i])) =>
           /\ gPc = "done"
           /\ gResp = OutcomeResponse(gCalls[i].outcome)
           /\ gResp.outcome.provider = "google"
           /\ \A j \in 1..(i - 1) : ~AcceptedCall(gCalls[j])

\* census was asked about Downing Street, found nothing, and google's
\* outcome was returned
C12_Witness ==
  /\ AutoSelection
  /\ gReq.address = DowningStreet
  /\ gPc = "done"
  /\ Len(gCalls) = 4
  /\ CensusCall(gCalls[2])
  /\ gCalls[2].signal = "nomatch"
  /\ Requested(gCalls[2], DowningStreet)
  /\ gResp.outcome.success
  /\ gResp.outcome.provider = "google"

AnsweredCall(e) == e.op = "geocode" /\ ~e.threw /\ e.signal # "none"

\* the upstream found the address
MatchSignal(k) == k \in {"matches", "OK"}

\* the upstream understood the request and found nothing
NoMatchSignal(k) == k \in {"nomatch", "ZERO_RESULTS"}

\* C14: either adapter turns a match into success with results, "no match"
\* into success with zero results and no error, and an upstream or transport
\* error into a failure with an error
C14_SignalsTranslatedAlike ==
  Serving =>
    \A i \in 1..Len(gCalls) :
      AnsweredCall(gCalls[i]) =>
        LET e == gCalls[i]
        IN IF MatchSignal(e.signal)
             THEN e.outcome.success /\ Len(e.outcome.results) >= 1
           ELSE IF NoMatchSignal(e.signal)
             THEN /\ e.outcome.success
                  /\ e.outcome.results = <<>>
                  /\ e.outcome.error = NoError
           ELSE ~e.outcome.success /\ e.outcome.error.code # ""

ResultFields == {"latitude", "longitude", "formattedAddress", "confidence", "components"}

\* the canonical shape of a GeocodeOutcome
CanonicalOutcome(o) ==
  /\ DOMAIN o = {"success", "provider", "results", "error"}
  /\ WellFormedOutcome(o)
  /\ \A k \in 1..Len(o.results) :
       /\ DOMAIN o.results[k] = ResultFields
       /\ o.results[k].confidence >= 0
       /\ o.results[k].confidence <= 100

\* C15: every outcome an adapter returns, and every outcome the route sends,
\* has the canonical shape: a failure has no results and an error with code
\* and message, a success has no error, every result has the five fields and
\* a confidence between 0 and 1
C15_CanonicalShape ==
  Serving =>
    /\ \A i \in 1..Len(gCalls) :
         (gCalls[i].op = "geocode" /\ ~gCalls[i].threw) =>
           CanonicalOutcome(gCalls[i].outcome)
    /\ gResp.isOutcome => CanonicalOutcome(gResp.outcome)

\* the route returned a census match whose matchedAddress was empty, at
\* confidence 0.75
C15_Witness ==
  /\ gPc = "done"
  /\ gResp.isOutcome
  /\ gResp.outcome.success
  /\ gResp.outcome.provider = "census"
  /\ Len(gResp.outcome.results) = MaxMatches
  /\ gResp.outcome.results[1].confidence = 75

\* the place of a search function in the order coordinates, CID,
\* autocomplete, phone, text search
SearchRank(call) ==
  CASE call = "searchByCoordinates" -> 1
    [] call = "searchByCid" -> 2
    [] call = "searchWithAutocomplete" -> 3
    [] call = "searchByPhone" -> 4
    [] call = "findplacefromtext" -> 5

\* the first strategy that finds a place ends the search and is the answer;
\* before the text search nothing else ends it
FirstFoundWins ==
  /\ \A i \in 1..(Len(pCalls) - 1) : pCalls[i].outcome # "found"
  /\ pResult.kind = "returned" /\ pResult.candidates =>
       /\ pCalls # <<>>
       /\ pCalls[Len(pCalls)].outcome = "found"
       /\ pResult.strategy = pCalls[Len(pCalls)].strategy
       /\ pResult.status = "OK"
  /\ pResult.kind = "returned" /\ ~pResult.candidates =>
       /\ pCalls # <<>>
       /\ pCalls[Len(pCalls)] = Searched("text", "empty")
  /\ pResult.kind = "threw" =>
       pCalls = <<>> \/ pCalls[Len(pCalls)] = Searched("text", "error")
  /\ pCalls # <<>> /\ pCalls[Len(pCalls)].outcome # "found"
       /\ pCalls[Len(pCalls)].strategy # "text" =>
       pIdx > 0 /\ pResult = NoPlaceResult

SearchesOf(params) ==
  LET Tried(strategy) ==
        \/ strategy = "coordinates" /\ params.coordinates # "none"
        \/ strategy = "cid" /\ params.cid # ""
        \/ strategy = "autocomplete"
             /\ params.name # "" /\ params.useAutocomplete = "true"
        \/ strategy = "phone" /\ params.phone # ""
        \/ strategy = "fallbackAutocomplete"
             /\ params.name # "" /\ params.useAutocomplete # "false"
        \/ strategy = "text"
  IN SelectSeq(Strategies, Tried)

OnePerSortOrder == << "most_relevant", "newest", "highest_rating" >>

\* a request on a key within its hour is served with no review fetch, and
\* the review cache is written only by the step that joins three fetches
WarmIssuesNoneAndJoinStores ==
  /\ (StdLookup /\ WithinHour(reviewsCache[sChain'.placeId])) =>
       /\ sFetches' = <<>>
       /\ sPc' = "idle"
       /\ reviewsCache' = reviewsCache
  /\ reviewsCache' # reviewsCache =>
       /\ sPc = "fetching" /\ sPc' = "idle"
       /\ sFetches = OnePerSortOrder
       /\ \A p \in Places :
            reviewsCache'[p] # reviewsCache[p] => p = sChain.placeId

\* C26 as stated: a request on a key that is cold or expired starts exactly
\* three review fetches, one per sort order, together and before any answer
\* is used, and they are joined before the merge is cached; a request on a
\* warm key starts none
C26_ColdStartsThree ==
  [][ /\ (StdLookup /\ ~WithinHour(reviewsCache[sChain'.placeId])) =>
           /\ sFetches' = OnePerSortOrder
           /\ sPc' = "fetching"
           /\ reviewsCache' = reviewsCache
      /\ WarmIssuesNoneAndJoinStores ]_vars

\* C26 amended: as stated for a request whose place details are obtained; a
\* request whose place details fail is answered with that failure and starts
\* no review fetch
C26_ColdStartsThreeAfterDetails ==
  [][ /\ (StdLookup /\ ~WithinHour(reviewsCache[sChain'.placeId])) =>
           IF DetailsObtained
             THEN /\ sFetches' = OnePerSortOrder
                  /\ sPc' = "fetching"
                  /\ reviewsCache' = reviewsCache
             ELSE /\ sFetches' = <<>>
                  /\ sPc' = "idle"
                  /\ ~sResp'.success
                  /\ reviewsCache' = reviewsCache
      /\ WarmIssuesNoneAndJoinStores ]_vars

\* C26 witness: a request met an entry an hour old, and its three fetches
\* are under way while the old entry is still stored
C26_Witness ==
  /\ sPc = "fetching"
  /\ sFetches = OnePerSortOrder
  /\ reviewsCache[sChain.placeId].present
  /\ now - reviewsCache[sChain.placeId].timestamp >= CACHE_EXPIRATION

\* the three answers one after the other, in the order of the sort methods
Concatenation(got) ==
  got["most_relevant"].reviews \o got["newest"].reviews \o got["highest_rating"].reviews

\* two reviews have the same (author, time) key
SameKey(r1, r2) == r1.author = r2.author /\ r1.time = r2.time

\* the positions of a list that hold the first review of their key
FirstOfKey(list) ==
  { i \in 1..Len(list) : \A j \in 1..(i - 1) : ~SameKey(list[j], list[i]) }

\* merged is the list without every review whose key occurred earlier
IsFirstSeen(merged, list) ==
  /\ Len(merged) = Cardinality(FirstOfKey(list))
  /\ \A k \in 1..Len(merged) :
       \E i \in FirstOfKey(list) :
         /\ Cardinality({ j \in FirstOfKey(list) : j <= i }) = k
         /\ merged[k] = list[i]

\* C27: the merged set is the concatenation of the three answers in the
\* order most_relevant, newest, highest_rating without every review whose
\* (author, time) key occurred earlier, so no two of its reviews share a
\* key, whatever the order in which the three fetches completed
C27_MergeIsFirstSeenConcatenation ==
  mPc = "joined" =>
    /\ IsFirstSeen(mMerged, Concatenation(mGot))
    /\ \A i, j \in 1..Len(mMerged) : i # j => ~SameKey(mMerged[i], mMerged[j])

\* C27 witness: the fetches completed highest_rating first and most_relevant
\* last, two answers held the same review and a third answer a review with
\* another key, and the merge is in the order of the sort methods
C27_Witness ==
  /\ mPc = "joined"
  /\ mOrder = << "highest_rating", "newest", "most_relevant" >>
  /\ mGot["most_relevant"].reviews = << Review("ann", "T1", 5), Review("bob", "T1", 3) >>
  /\ mGot["newest"].reviews = << Review("ann", "T2", 4), Review("ann", "T1", 5) >>
  /\ mGot["highest_rating"].reviews = << Review("bob", "T1", 3) >>
  /\ mMerged = << Review("ann", "T1", 5), Review("bob", "T1", 3), Review("ann", "T2", 4) >>

\* C28: deduplicateReviews applied to its own output returns the same
\* sequence, and the three answers merged twice over give the same set as
\* merged once
C28_DeduplicationIdempotent ==
  mPc = "joined" =>
    /\ deduplicateReviews(mMerged) = mMerged
    /\ deduplicateReviews(deduplicateReviews(Concatenation(mGot))) =
         deduplicateReviews(Concatenation(mGot))
    /\ deduplicateReviews(Concatenation(mGot) \o Concatenation(mGot)) = mMerged

\* C28 witness: all three answers held the same review, next to others, and
\* the merge holds it once
C28_Witness ==
  /\ mPc = "joined"
  /\ \A m \in SortSet : mGot[m].kind = "OK" /\ Len(mGot[m].reviews) = 2
  /\ \A m \in SortSet : \E i \in 1..2 : mGot[m].reviews[i] = Review("ann", "T1", 5)
  /\ Len(mMerged) = 3
  /\ mMerged[1] = Review("ann", "T1", 5)

\* the reviews of a list that a request with this minimumRating is served
ViewOf(reviews, minimumRating) ==
  LET Shown(review) == ~minimumRating.has \/ review.rating >= minimumRating.v
  IN SelectSeq(reviews, Shown)

\* C29: the minimum-rating filter is a view.  What is stored is the whole
\* merge of the three answers also when the storing request is filtered; a
\* request on a key within its hour, whatever its minimumRating, starts no
\* fetch, is served the entry through its own filter and leaves the entry
\* as it is
C29_FilterIsAView ==
  [][ \A c \in Callers :
        LET p == kCall'[c].placeId
        IN /\ (kPc[c] = "fetching" /\ kPc'[c] = "idle") =>
                /\ reviewsCache'[p].reviews = CompleteMerge(kGot[c])
                /\ kView'[c] = ViewOf(CompleteMerge(kGot[c]), kCall[c].minimumRating)
           /\ (kPc[c] = "idle" /\ kCall'[c] # kCall[c]
                 /\ WithinHour(reviewsCache[p])) =>
                /\ kPc'[c] = "idle"
                /\ kGot'[c] = kGot[c]
                /\ reviewsCache' = reviewsCache
                /\ kView'[c] = ViewOf(reviewsCache[p].reviews, kCall'[c].minimumRating)
           /\ (kPc[c] = "idle" /\ kPc'[c] = "idle" /\ kView'[c] # kView[c]) =>
                /\ WithinHour(reviewsCache[p])
                /\ reviewsCache' = reviewsCache ]_vars

\* C29 witness: two requests on the same key, one with minimumRating 4 and
\* one without, are both served from one entry, which holds a review under 4
\* that the filtered request is not shown
C29_Witness ==
  /\ kPc["a"] = "idle" /\ kPc["b"] = "idle"
  /\ kCall["a"] = [placeId |-> "p1", minimumRating |-> Num(4)]
  /\ kCall["b"] = [placeId |-> "p1", minimumRating |-> Undefined]
  /\ reviewsCache["p1"].present
  /\ reviewsCache["p1"].timestamp < now
  /\ reviewsCache["p1"].reviews = << Review("bob", "T1", 3), Review("ann", "T1", 5) >>
  /\ kView["a"] = << Review("ann", "T1", 5) >>
  /\ kView["b"] = reviewsCache["p1"].reviews

\* a step in which getReviewsChunked is called
ChunkCalled == cPc = "idle" /\ now' = now

\* a step in which the fetch of a call resolves and the call returns
ChunkFetched == cPc = "fetching" /\ cPc' = "idle"

\* the sort orders a token lists as fetched; none when it lists none
ListedMethods(token) ==
  IF token.json = "object" /\ token.fetchedMethods.t = "arr"
       /\ ~(Truthy(token.reviewIds) /\ token.reviewIds.t # "arr")
    THEN { token.fetchedMethods.a[i] : i \in 1..Len(token.fetchedMethods.a) }
    ELSE {}

\* the first of most_relevant, newest, highest_rating the token does not
\* list, most_relevant when it lists all three
FirstUnlisted(token) ==
  IF "most_relevant" \notin ListedMethods(token) THEN "most_relevant"
  ELSE IF "newest" \notin ListedMethods(token) THEN "newest"
  ELSE IF "highest_rating" \notin ListedMethods(token) THEN "highest_rating"
  ELSE "most_relevant"

\* a call makes one fetch, under the first sort order its token does not
\* list, and no fetch has been made when the call begins to wait
OneFetchFirstUnlisted ==
  /\ cPc' = "fetching" => cIn'.sorts = <<>>
  /\ ChunkFetched => cIn'.sorts = << FirstUnlisted(cIn.options.pageToken) >>

\* along a chain the token lists the sort orders fetched so far: the first
\* call's token most_relevant, the second's newest too, and from the third
\* on all three, so that the calls fetch most_relevant, newest,
\* highest_rating and then most_relevant again
ChainRotates ==
  (ChunkFetched /\ cResp'.success /\ cResp'.pagination.nextPageToken # NoToken) =>
    LET before == cIn.options.pageToken
        listed == IF before.json = "object" /\ before.fetchedMethods.t = "arr"
                    THEN before.fetchedMethods.a ELSE <<>>
        after == cResp'.pagination.nextPageToken.fetchedMethods.a
    IN after = IF listed = <<>> THEN << "most_relevant" >>
               ELSE IF listed = << "most_relevant" >>
                 THEN << "most_relevant", "newest" >>
               ELSE << "most_relevant", "newest", "highest_rating" >>

\* C31 as stated: each getReviewsChunked call issues exactly one review
\* fetch, under the first sort order its token does not list or
\* most_relevant when it lists all three, so that a chain fetches
\* most_relevant, newest, highest_rating and then most_relevant
C31_EachCallFetchesOnce ==
  [][ /\ ChunkCalled => cPc' = "fetching"
      /\ OneFetchFirstUnlisted
      /\ ChainRotates ]_vars

\* C31 amended: as stated for a call whose place details are obtained; a
\* call whose place details fail returns that failure and issues no review
\* fetch
C31_EachCallFetchesOnceAfterDetails ==
  [][ /\ ChunkCalled =>
           \/ cPc' = "fetching"
           \/ cPc' = "idle" /\ ~cResp'.success /\ cIn'.sorts = <<>>
      /\ OneFetchFirstUnlisted
      /\ ChainRotates ]_vars

\* C31 witness: the fourth call of a chain, whose token lists all three sort
\* orders, has fetched most_relevant
C31_Witness ==
  /\ cPc = "idle"
  /\ cIn.options.pageToken.json = "object"
  /\ cIn.options.pageToken.fetchedMethods = JArr(OnePerSortOrder)
  /\ cIn.sorts = << "most_relevant" >>
  /\ cResp.success

\* the token of the call is one the parse accepts
Decodable(token) ==
  /\ token.json = "object"
  /\ ~(Truthy(token.reviewIds) /\ token.reviewIds.t # "arr")

\* the identity keys the token of the call carries as seen
SeenKeys(token) ==
  IF Decodable(token) /\ token.reviewIds.t = "arr"
    THEN { token.reviewIds.a[i] : i \in 1..Len(token.reviewIds.a) }
    ELSE {}

\* the minimum rating in force: the token's when the call has a token the
\* parse accepts, the request's otherwise
RatingInForce(options) ==
  IF Decodable(options.pageToken)
    THEN options.pageToken.minimumRating
    ELSE IF options.minimumRating.has THEN JNum(options.minimumRating.v) ELSE JAbsent

\* the review passes the minimum rating in force
RatingQualified(review, options) ==
  RatingInForce(options).t = "num" => review.rating >= RatingInForce(options).n

\* the positions of the answer whose review is unseen, rating-qualified and
\* not a repeat of an earlier such position
Eligible(answer, options) ==
  { i \in 1..Len(answer) :
      /\ (answer[i].author \o "_" \o answer[i].time) \notin SeenKeys(options.pageToken)
      /\ RatingQualified(answer[i], options)
      /\ \A j \in 1..(i - 1) :
           SameKey(answer[j], answer[i]) => ~RatingQualified(answer[j], options) }

\* maxResults, 10 when it is left out
AskedPageSize(options) == IF options.maxResults = 0 THEN 10 ELSE options.maxResults

\* page holds, in the order of the answer, the first pageSize eligible reviews
IsFirstEligible(page, answer, options) ==
  LET eligible == Eligible(answer, options)
      size == IF Cardinality(eligible) < AskedPageSize(options)
                THEN Cardinality(eligible) ELSE AskedPageSize(options)
  IN /\ Len(page) = size
     /\ \A k \in 1..size :
          \E i \in eligible :
            /\ Cardinality({ j \in eligible : j <= i }) = k
            /\ page[k] = answer[i]

UntriedAfter(options) ==
  (SortSet \ ListedMethods(options.pageToken)) \ { FirstUnlisted(options.pageToken) }

\* C33: hasMoreReviews is true exactly when sort orders remain untried after
\* the call or the fetched answer held more unseen, rating-qualified reviews
\* than the page took; it is false when all sort orders are tried and every
\* fetched review was emitted, already seen or filtered out
C33_HasMoreExactly ==
  (ChunkReturned /\ cResp.success) =>
    (cResp.pagination.hasMoreReviews <=>
       \/ UntriedAfter(cIn.options) # {}
       \/ Cardinality(Eligible(cIn.fsig.reviews, cIn.options)) > Len(cResp.results))

\* the step in which the three fetches of a getReviews call are joined
StdJoined == sPc = "fetching" /\ sPc' = "idle"

\* C34: a sort-order fetch that fails never fails getReviews.  The join
\* always answers success and caches the merge, to which the failed fetches
\* add nothing; when all three failed the empty merge is cached, and while
\* the entry is within its hour no request fetches reviews again: a request
\* that has its place details is served the empty set from the entry
C34_FailedFetchStillCached ==
  [][ LET p == sChain'.placeId
      IN /\ StdJoined =>
              /\ sResp'.success
              /\ reviewsCache'[p].present
              /\ reviewsCache'[p].timestamp = now
              /\ Len(reviewsCache'[p].reviews)
                   <= (Cardinality(SortSet) - Cardinality(sFailed')) * MaxFetch
              /\ sFailed' = SortSet =>
                   reviewsCache'[p].reviews = <<>> /\ sResp'.results = <<>>
         /\ (StdLookup /\ WithinHour(reviewsCache[p])
               /\ reviewsCache[p].reviews = <<>>) =>
              /\ sPc' = "idle"
              /\ sFetches' = <<>>
              /\ reviewsCache' = reviewsCache
              /\ DetailsObtained => sResp'.success /\ sResp'.results = <<>> ]_vars

\* C34 witness: all three fetches failed, the empty merge was cached, and
\* half an hour later a request is served from it without a fetch
C34_Witness ==
  /\ sPc = "idle"
  /\ sFailed = SortSet
  /\ sFetches = <<>>
  /\ sResp.success /\ sResp.results = <<>>
  /\ reviewsCache[sChain.placeId].present
  /\ reviewsCache[sChain.placeId].reviews = <<>>
  /\ reviewsCache[sChain.placeId].timestamp < now
  /\ now - reviewsCache[sChain.placeId].timestamp < CACHE_EXPIRATION

\* the response is the failure of a place-details lookup: success false,
\* an error, no reviews and no pagination
DetailsFailure(resp) ==
  /\ ~resp.success
  /\ resp.error \in { Err("UNKNOWN", "Network Error"),
                      Err("UNKNOWN", "Fetching place details failed") }
  /\ resp.results = <<>>
  /\ resp.pagination = NoPagination

\* the step is a call that returned at once without success, which is what
\* a call does whose place details fail
StdFailedAtOnce ==
  sPc = "idle" /\ sPc' = "idle" /\ stdVars' # stdVars /\ ~sResp'.success

ChunkFailedAtOnce ==
  cPc = "idle" /\ cPc' = "idle" /\ chunkVars' # chunkVars /\ ~cResp'.success

\* C35: when the place details fail, getReviews and getReviewsChunked
\* return that failure, with an error and no pagination, fetch no reviews
\* and leave both caches as they are: nothing is cached for the failure and
\* no entry is removed
C35_DetailsFailureChangesNothing ==
  [][ /\ StdFailedAtOnce =>
           /\ DetailsFailure(sResp')
           /\ sFetches' = <<>>
           /\ ~WithinHour(detailsCache[sChain'.placeId])
      /\ ChunkFailedAtOnce =>
           /\ DetailsFailure(cResp')
           /\ cIn'.sorts = <<>>
           /\ cIn'.fsig.kind = "none"
           /\ ~WithinHour(detailsCache[cChain'.placeId])
      /\ (StdFailedAtOnce \/ ChunkFailedAtOnce) =>
           /\ reviewsCache' = reviewsCache
           /\ detailsCache' = detailsCache ]_vars

\* C35 witness: with both entries stored and an hour old, a getReviews call
\* and a getReviewsChunked call met a failing details lookup; both returned
\* the failure and the entries are still stored
C35_Witness ==
  /\ sPc = "idle" /\ DetailsFailure(sResp)
  /\ cPc = "idle" /\ DetailsFailure(cResp)
  /\ cIn.sorts = <<>>
  /\ sFetches = <<>>
  /\ detailsCache["p1"].present
  /\ now - detailsCache["p1"].timestamp >= CACHE_EXPIRATION
  /\ reviewsCache["p1"].present

\* C36: getReviewsChunked neither reads nor writes the review cache.  No
\* step of a chunked call changes an entry; a call that has its place
\* details goes to the upstream also when the entry of its key is within its
\* hour, and its page is made of the fetched answer
C36_ChunkedBypassesReviewCache ==
  [][ /\ chunkVars' # chunkVars => reviewsCache' = reviewsCache
      /\ (cPc = "idle" /\ chunkVars' # chunkVars /\ ~ChunkFailedAtOnce
            /\ WithinHour(reviewsCache[cChain'.placeId])) =>
           cPc' = "fetching"
      /\ ChunkFetched =>
           /\ Len(cIn'.sorts) = 1
           /\ cIn'.fsig.kind # "none"
           /\ cResp'.success =>
                IsFirstEligible(cResp'.results, cIn'.fsig.reviews, cIn.options) ]_vars

\* C36 witness: a chunked call waits for its fetch while the review cache
\* holds an entry for the same key that was stored half an hour before
C36_Witness ==
  /\ cPc = "fetching"
  /\ reviewsCache[cChain.placeId].present
  /\ reviewsCache[cChain.placeId].reviews # <<>>
  /\ reviewsCache[cChain.placeId].timestamp < now
  /\ now - reviewsCache[cChain.placeId].timestamp < CACHE_EXPIRATION

\* the minimum rating as a token carries it
AsTokenField(minimumRating) ==
  IF minimumRating.has THEN JNum(minimumRating.v) ELSE JAbsent

\* the page and the next token are what the filter gives
FilterApplied(filter) ==
  /\ \A i \in 1..Len(cResp.results) :
       filter.t = "num" => cResp.results[i].rating >= filter.n
  /\ filter.t # "num" =>
       \A i \in 1..Len(cIn.fsig.reviews) :
         LET review == cIn.fsig.reviews[i]
         IN \/ \E k \in 1..Len(cResp.results) : cResp.results[k] = review
            \/ (review.author \o "_" \o review.time) \in SeenKeys(cIn.options.pageToken)
            \/ Len(cResp.results) = AskedPageSize(cIn.options)
  /\ cResp.pagination.nextPageToken # NoToken =>
       cResp.pagination.nextPageToken.minimumRating = filter

\* C37: with a page token that decodes, the filter of a chunked call is the
\* minimum rating stored in the token, whatever the request says, so a token
\* made without a filter switches the filter off for the later calls of the
\* chain; a call without such a token uses the minimum rating of the request
C37_TokenFilterWins ==
  (ChunkReturned /\ cResp.success) =>
    IF Decodable(cIn.options.pageToken)
      THEN FilterApplied(cIn.options.pageToken.minimumRating)
      ELSE FilterApplied(AsTokenField(cIn.options.minimumRating))

\* C37 witness: the second call of a chain that began without a filter asks
\* for minimumRating 4 and is served a review rated 3
C37_Witness ==
  /\ ChunkReturned /\ cResp.success
  /\ cIn.options.pageToken.json = "object"
  /\ cIn.options.pageToken.fetchedMethods = JArr(<< "most_relevant" >>)
  /\ cIn.options.pageToken.minimumRating = JAbsent
  /\ cIn.options.minimumRating = Num(4)
  /\ cIn.sorts = << "newest" >>
  /\ \E i \in 1..Len(cResp.results) : cResp.results[i].rating = 3

\* the token with other placeId, totalReviews and minimumRating fields
TokenVariants(token) ==
  { [token EXCEPT !.placeId = placeId, !.totalReviews = totalReviews,
                  !.minimumRating = minimumRating] :
      placeId \in { JAbsent, JStr("p1"), JStr("p2") },
      totalReviews \in { JAbsent, JNum(0), JNum(3) },
      minimumRating \in { JAbsent, JNum(4), JNum(5) } }

\* C38: the response of getReviews depends on the token through startIndex
\* only: the same request with a token that differs in placeId, totalReviews
\* or minimumRating gets the same response, so a token issued for another
\* place or filter is taken as it is
C38_OnlyStartIndexCounts ==
  (StdReturned /\ sChain.sent.json = "object") =>
    \A token \in TokenVariants(sChain.sent) :
      StandardPage(sChain.placeId,
                   Options(sChain.maxResults, sChain.minimumRating, token),
                   sResp.summary, NoFetch) = sResp

\* C38 witness: a request without a filter sent the token of a request for
\* another place with minimumRating 4, and got the page from that token's
\* start index on, a review rated 3 on it
C38_Witness ==
  /\ StdReturned
  /\ sChain.sent = OffsetToken(1, "p2", 3, Num(4))
  /\ sChain.placeId = "p1"
  /\ sChain.minimumRating = Undefined
  /\ sResp.pagination.currentPage = 2
  /\ \E i \in 1..Len(sResp.results) : sResp.results[i].rating = 3

\* a caller's call reaches its cache lookup and finds no entry in force
ColdLookup(c) ==
  /\ kPc[c] = "idle"
  /\ <<kPc'[c], kCall'[c], kView'[c]>> # <<kPc[c], kCall[c], kView[c]>>
  /\ ~WithinHour(reviewsCache[kCall'[c].placeId])

\* C39: aggregations in flight are not shared.  A call that finds its key
\* cold starts three fetches of its own, also while another call is fetching
\* the same key; when its three fetches have resolved it is served its own
\* merge and that merge replaces whatever the cache holds for the key, so the
\* entry is the merge of the call that stored last
C39_NoInFlightSharing ==
  [][ \A c \in Callers :
        /\ ColdLookup(c) =>
             /\ kPc'[c] = "fetching"
             /\ kGot'[c] = [m \in SortSet |-> Pending]
             /\ \A d \in Callers \ {c} : kGot'[d] = kGot[d] /\ kPc'[d] = kPc[d]
        /\ (kPc[c] = "fetching" /\ kPc'[c] = "idle") =>
             /\ \A m \in SortSet : kGot[c][m] # Pending
             /\ kView'[c] = ViewOf(CompleteMerge(kGot[c]), kCall[c].minimumRating)
             /\ reviewsCache'[kCall[c].placeId] =
                  ReviewsEntry(CompleteMerge(kGot[c]), now)
             /\ \A d \in Callers \ {c} : kGot'[d] = kGot[d] /\ kPc'[d] = kPc[d] ]_vars

\* C39 witness: two calls on the same key overlapped.  One has stored its
\* merge and been served it; the other, which found the key cold before that
\* store, holds three answers of its own with another merge and has yet to
\* store it over the first
C39_Witness ==
  /\ kPc["a"] = "fetching" /\ kPc["b"] = "idle"
  /\ kCall["a"].placeId = "p1" /\ kCall["b"] = NoLookup
  /\ \A m \in SortSet : kGot["a"][m].kind = "OK"
  /\ reviewsCache["p1"].present
  /\ reviewsCache["p1"].timestamp = now
  /\ reviewsCache["p1"].reviews # <<>>
  /\ kView["b"] = reviewsCache["p1"].reviews
  /\ CompleteMerge(kGot["a"]) # reviewsCache["p1"].reviews

====
